---- MODULE Spec2Model ----
(***************************************************************************)
(* Alfajor: compound wait_for expressions (alfajor/browsers/_waitexpr.py)  *)
(* and the WebDriver polling driver (alfajor/browsers/webdriver.py).       *)
(*                                                                         *)
(* Python values are modelled as strings ("True", "False", "None"); a      *)
(* Python string is modelled as a sequence of tokens, so that              *)
(* 'element:' + locator is <<"element:">> \o locator and                   *)
(* condition.startswith('element:') is Head(condition) = "element:".       *)
(* A call that may raise returns a record [rv, exc, log, slept]: the value *)
(* returned, the exception raised ("none" when it returns), the clauses    *)
(* called in order, and the time spent in time.sleep.                      *)
(***************************************************************************)
EXTENDS Integers, Sequences, FiniteSets, TLC

VARIABLES
    expression,   \* WebDriverWaitExpression._expression / the tree under test
    browser,      \* the browser handle: [kind, current_timeout, page]
    pc,           \* position of the caller: "build", "polling", "exec", "done"
    rv,           \* value returned to the caller of the wait
    exc,          \* exception that reached the caller ("none" if none)
    call_log,     \* tests' call_log: clauses called on a canary / MockBrowser
    tick,         \* outcome of the latest evaluation [rv, exc, log, slept]
    now,          \* time.time(), in milliseconds
    wait,         \* locals of the running wait: [timeout, start_time, ...]
    chain         \* the builder calls made so far, in order

vars == <<expression, browser, pc, rv, exc, call_log, tick, now, wait, chain>>

(* ---------------------------------------------------------------------- *)
(* Bounds                                                                 *)
(* ---------------------------------------------------------------------- *)
MaxKids == 3         \* children of a hand-built AndExpression / OrExpression
MaxClauses == 3      \* builder calls that append a clause (MockBrowser)
MaxOrs == 2          \* or_() calls on one expression
MaxWaitClauses == 2  \* clauses of an expression waited on a WebDriver
MaxWaitOrs == 1      \* or_() calls on an expression waited on a WebDriver
MaxTimeout == 1      \* longest timeout argument, in poll periods
MaxLatency == 1      \* longest time one evaluation takes, in poll periods
MaxPollTimeout == 3  \* longest timeout of a wait left to run out, in poll periods
MaxFrequency == 2    \* longest frequency argument, in poll periods
MaxStatus == 34      \* largest wire status code of a response
MaxItems == 3        \* fragments and OR sentinels recorded by one SeleniumWaitExpression
MaxActive == 1       \* largest count of active requests, window.jQuery.active
MaxSpecs == 2        \* directive specs given to the constructor of an expression
MaxKwTimeout == 2    \* longest timeout keyword given to a builder call, in poll periods
MaxRemoteTimeout == 2 \* longest timeout given to WebDriverRemote, in poll periods
MaxSessions == 2     \* browser sessions started on the server
RecursionLimit == 3  \* nested entries of WebDriver.wait_for the interpreter allows
MaxFields == 3       \* fields of the form given to _fill_form_async


(* ---------------------------------------------------------------------- *)
(* Python values                                                          *)
(* ---------------------------------------------------------------------- *)
PyTruthy(v) == v \notin {"False", "None"}

PyBool(b) == IF b THEN "True" ELSE "False"

Returned(v, log, slept) == [rv |-> v, exc |-> "none", log |-> log, slept |-> slept]

Raised(e, log, slept) == [rv |-> "None", exc |-> e, log |-> log, slept |-> slept]

(* ---------------------------------------------------------------------- *)
(* Expression nodes                                                       *)
(* ---------------------------------------------------------------------- *)
\* WebDriverWaitClause(condition, **kw); n is the identity of the object.
WebDriverWaitClause(n, condition, retval) ==
    [op |-> "CL", n |-> n, condition |-> condition, retval |-> retval]

AndExpression(clauses) == [op |-> "AND", kids |-> clauses]

OrExpression(clauses) == [op |-> "OR", kids |-> clauses]

(* ---------------------------------------------------------------------- *)
(* Browsers                                                               *)
(* ---------------------------------------------------------------------- *)
Selectors == {"#id1", "#id2"}

\* what the remote browser shows for a selector
ElementStates == {"absent", "hidden", "visible"}

_default_frequency == 250

NoFault == [call |-> "none", status |-> 0, interrupt |-> "none"]

\* tests' MockBrowser: current_timeout = 0
MockBrowser == [kind |-> "mock", current_timeout |-> 0, fault |-> NoFault]

\* tests' MockBrowser.wait_for: log the condition, return kw['retval']
MockBrowser_wait_for(clause) == Returned(clause.retval, <<clause>>, 0)

\* a WebDriver with a session; page is the state of the remote browser:
\* el[s] for each selector, flag = window.__alfajor_webdriver_page__;
\* fault is the remote call that fails during the current evaluation
WebDriver(current_timeout, page) ==
    [kind |-> "webdriver", current_timeout |-> current_timeout, page |-> page,
     fault |-> NoFault]

\* window.jQuery is undefined on the page
NoJQuery == [loaded |-> FALSE, active |-> 0]

Pages ==
    [el : [Selectors -> ElementStates], flag : {"true", "undefined"},
     jquery : {NoJQuery}]

(* ---------------------------------------------------------------------- *)
(* Remote protocol (webdriver.py)                                         *)
(* ---------------------------------------------------------------------- *)
\* jsonwire_errors: wire status -> summary, the name of the exception class
jsonwire_errors ==
    (0 :> "Success") @@ (7 :> "NoSuchElement") @@ (8 :> "NoSuchFrame")
    @@ (9 :> "UnknownCommand") @@ (10 :> "StaleElementReference")
    @@ (11 :> "ElementNotVisible") @@ (12 :> "InvalidElementState")
    @@ (13 :> "UnknownError") @@ (15 :> "ElementIsNotSelectable")
    @@ (17 :> "JavaScriptError") @@ (19 :> "XPathLookupError")
    @@ (21 :> "Timeout") @@ (23 :> "NoSuchWindow")
    @@ (24 :> "InvalidCookieDomain") @@ (25 :> "UnableToSetCookie")
    @@ (26 :> "UnexpectedAlertOpen") @@ (27 :> "NoAlertOpenError")
    @@ (28 :> "ScriptTimeout") @@ (29 :> "InvalidElementCoordinates")
    @@ (30 :> "IMENotAvailable") @@ (31 :> "IMEEngineActivationFailed")
    @@ (32 :> "InvalidSelector")

\* the WebDriverException subclasses defined in the module (globals())
WebDriverExceptions == {jsonwire_errors[c] : c \in DOMAIN jsonwire_errors \ {0}}

\* a lookup in the table alone, without the lookup of the class in globals()
_raw_call_error_table_only(status) ==
    IF status \in DOMAIN jsonwire_errors THEN jsonwire_errors[status]
    ELSE "RuntimeError"

\* WebDriverRemote._raw_call on a response with status_code >= 300 whose
\* body carries wire status `status`: the exception it raises.  A status
\* outside the table, or the summary 'Success' (no such global), falls into
\* the bare except and leaves exc = RuntimeError.
_raw_call_error(status) ==
    IF status \in DOMAIN jsonwire_errors
          /\ jsonwire_errors[status] \in WebDriverExceptions
    THEN jsonwire_errors[status]
    ELSE "RuntimeError"

\* a remote call fails during this evaluation when the injected fault names it
FaultOn(b, call) == b.fault.call = call /\ b.fault.interrupt = "none"

\* KeyboardInterrupt / SystemExit is delivered to the process while it is in
\* _raw_call for the remote call r answers: inside _req_session.request
\* ("request") it leaves _raw_call; inside the try of the error branch it is
\* caught by the bare `except:`, before exc is rebound ("lookup": exc is still
\* RuntimeError) or after ("message": exc is the looked-up class).  A response
\* below 300 never enters the try.
_raw_call(b, call, r) ==
    IF b.fault.call # call \/ b.fault.interrupt = "none" THEN r
    ELSE IF b.fault.interrupt = "request" THEN Raised("KeyboardInterrupt", <<>>, 0)
    ELSE IF r.exc = "none" THEN r
    ELSE IF b.fault.interrupt = "lookup" THEN Raised("RuntimeError", <<>>, 0)
    ELSE r

\* WebDriverRemote._to_locator: <<strategy, value>>
WebDriverRemote_to_locator(expr) ==
    IF \E i \in 1..Len(expr) : expr[i] \in {"css=", "xpath=", "id="}
    THEN LET strategy == CASE Head(expr) = "css=" -> "css selector"
                           [] Head(expr) = "xpath=" -> "xpath"
                           [] Head(expr) = "id=" -> "id"
                           [] OTHER -> Head(expr)
         IN <<strategy, Tail(expr)>>
    ELSE <<"xpath", expr>>

\* the answer of the server to POST element, as _raw_call returns or raises it
ElementResponse(b, locator) ==
    IF FaultOn(b, "element") THEN Raised(_raw_call_error(b.fault.status), <<>>, 0)
    ELSE IF locator[1] # "css selector" \/ Len(locator[2]) # 1
         THEN Raised(_raw_call_error(32), <<>>, 0)
    ELSE IF locator[2][1] \notin Selectors \/ b.page.el[locator[2][1]] = "absent"
         THEN Raised(_raw_call_error(7), <<>>, 0)
    ELSE Returned(locator[2][1], <<>>, 0)

\* driver('POST', 'element', using=strategy, value=value)
PostElement(b, locator) == _raw_call(b, "element", ElementResponse(b, locator))

\* the answer of the server to GET element/<el>/displayed
DisplayedResponse(b, el) ==
    IF FaultOn(b, "displayed") THEN Raised(_raw_call_error(b.fault.status), <<>>, 0)
    ELSE Returned(PyBool(b.page.el[el] = "visible"), <<>>, 0)

\* driver('GET', 'element/%s/displayed' % el)['value']
GetDisplayed(b, el) == _raw_call(b, "displayed", DisplayedResponse(b, el))

page_loading_expr == <<"window.__alfajor_webdriver_page__ === true">>

page_ready_expr == <<"window.__alfajor_webdriver_page__ === undefined">>

ajax_pending_expr == <<"window.jQuery && window.jQuery.active != 0;">>

ajax_complete_expr == <<"window.jQuery && window.jQuery.active == 0;">>

\* window.jQuery && <test of window.jQuery.active>: the left operand when it
\* is undefined, else the right one; undefined is returned as JSON null
JQueryAnd(page, test) ==
    IF ~page.jquery.loaded THEN "null" ELSE IF test THEN "true" ELSE "false"

\* the page scripts with the two tests of the flag exchanged
EvalScriptExchanged(page, js) ==
    CASE js = page_ready_expr -> IF page.flag = "true" THEN "true" ELSE "false"
      [] js = page_loading_expr -> IF page.flag = "undefined" THEN "true" ELSE "false"
      [] js = ajax_pending_expr -> JQueryAnd(page, page.jquery.active # 0)
      [] js = ajax_complete_expr -> JQueryAnd(page, page.jquery.active = 0)
      [] OTHER -> "null"

\* value of a script on the page, as the JSON value the server returns
EvalScript(page, js) ==
    CASE js = page_ready_expr -> IF page.flag = "undefined" THEN "true" ELSE "false"
      [] js = page_loading_expr -> IF page.flag = "true" THEN "true" ELSE "false"
      [] js = ajax_pending_expr -> JQueryAnd(page, page.jquery.active # 0)
      [] js = ajax_complete_expr -> JQueryAnd(page, page.jquery.active = 0)
      [] OTHER -> "null"

\* response.json(): JSON value -> Python value
FromJson(v) == CASE v = "true" -> "True" [] v = "false" -> "False" [] OTHER -> "None"

\* the answer of the server to POST execute
ExecuteResponse(b, js) ==
    IF FaultOn(b, "execute") THEN Raised(_raw_call_error(b.fault.status), <<>>, 0)
    ELSE Returned(FromJson(EvalScript(b.page, js)), <<>>, 0)

\* self('POST', 'execute', script=script % expression, args=[])['value']
PostExecute(b, js) == _raw_call(b, "execute", ExecuteResponse(b, js))

\* try/except of wait_for_element_present._find_element around the lookup r
PresentFrom(r) ==
    IF r.exc = "none" THEN Returned("True", <<>>, 0)
    ELSE IF r.exc = "NoSuchElement" THEN Returned("False", <<>>, 0)
    ELSE r

\* wait_for_element_present._find_element
find_element_present(b, expr) ==
    PresentFrom(PostElement(b, WebDriverRemote_to_locator(expr)))

\* try/except of wait_for_element_not_present._find_element around the lookup r
NotPresentFrom(r) ==
    IF r.exc = "none" THEN Returned("False", <<>>, 0)
    ELSE IF r.exc = "NoSuchElement" THEN Returned("True", <<>>, 0)
    ELSE r

\* wait_for_element_not_present._find_element
find_element_not_present(b, expr) ==
    NotPresentFrom(PostElement(b, WebDriverRemote_to_locator(expr)))

\* return displayed, without the except clause
VisibleFromNoExcept(d) == d

\* return displayed / except ElementNotVisible: return False
VisibleFrom(d) ==
    IF d.exc = "ElementNotVisible" THEN Returned("False", <<>>, 0) ELSE d

\* _element_visible of wait_for_element_visible after the lookup r
VisibleAfterLookup(b, r) ==
    IF r.exc = "ElementNotVisible" THEN Returned("False", <<>>, 0)
    ELSE IF r.exc # "none" THEN r
    ELSE VisibleFrom(GetDisplayed(b, r.rv))

\* wait_for_element_visible._element_visible
element_visible_op(b, expr) ==
    VisibleAfterLookup(b, PostElement(b, WebDriverRemote_to_locator(expr)))

\* return not displayed / except ElementNotVisible: return True
InvisibleFrom(d) ==
    IF d.exc = "ElementNotVisible" THEN Returned("True", <<>>, 0)
    ELSE IF d.exc # "none" THEN d
    ELSE Returned(PyBool(~PyTruthy(d.rv)), <<>>, 0)

\* _element_visible of wait_for_element_invisible after the lookup r
InvisibleAfterLookup(b, r) ==
    IF r.exc = "ElementNotVisible" THEN Returned("True", <<>>, 0)
    ELSE IF r.exc # "none" THEN r
    ELSE InvisibleFrom(GetDisplayed(b, r.rv))

\* wait_for_element_invisible._element_visible
element_invisible_op(b, expr) ==
    InvisibleAfterLookup(b, PostElement(b, WebDriverRemote_to_locator(expr)))

\* the prefixes of the conditions WebDriver.wait_for polls
PolledPrefixes == {"js:", "element:", "!element:", "visible:", "!visible:"}

\* operation() of the wait_for_* method WebDriver.wait_for dispatches to
Operation(b, condition) ==
    CASE Head(condition) = "js:"        -> PostExecute(b, Tail(condition))
      [] Head(condition) = "element:"   -> find_element_present(b, Tail(condition))
      [] Head(condition) = "!element:"  -> find_element_not_present(b, Tail(condition))
      [] Head(condition) = "visible:"   -> element_visible_op(b, Tail(condition))
      [] Head(condition) = "!visible:"  -> element_invisible_op(b, Tail(condition))

\* a loop body that gives up after the first sleep
PassOutcomeNoRetry(r, t, d, end_time, frequency) ==
    IF r.exc # "none"
    THEN [step |-> "raise", rv |-> "None", exc |-> r.exc, t |-> t + d]
    ELSE IF PyTruthy(r.rv)
    THEN [step |-> "return", rv |-> r.rv, exc |-> "none", t |-> t + d]
    ELSE [step |-> "raise", rv |-> "None", exc |-> "AssertionError",
          t |-> t + d + frequency]

\* a loop body that sleeps before it looks at the result
PassOutcomeSleepFirst(r, t, d, end_time, frequency) ==
    IF r.exc # "none"
    THEN [step |-> "raise", rv |-> "None", exc |-> r.exc, t |-> t + d]
    ELSE IF PyTruthy(r.rv)
    THEN [step |-> "return", rv |-> r.rv, exc |-> "none", t |-> t + d + frequency]
    ELSE IF t + d + frequency > end_time
    THEN [step |-> "raise", rv |-> "None", exc |-> "AssertionError",
          t |-> t + d + frequency]
    ELSE [step |-> "loop", rv |-> "None", exc |-> "none", t |-> t + d + frequency]

\* a loop body that returns False after the loop instead of raising
PassOutcomeReturnFalse(r, t, d, end_time, frequency) ==
    IF r.exc # "none"
    THEN [step |-> "raise", rv |-> "None", exc |-> r.exc, t |-> t + d]
    ELSE IF PyTruthy(r.rv)
    THEN [step |-> "return", rv |-> r.rv, exc |-> "none", t |-> t + d]
    ELSE IF t + d + frequency > end_time
    THEN [step |-> "return", rv |-> "False", exc |-> "none", t |-> t + d + frequency]
    ELSE [step |-> "loop", rv |-> "None", exc |-> "none", t |-> t + d + frequency]

\* the loop body of WebDriverRemote._exec_with_timeout after result =
\* operation(), entered at time t with the operation taking d: what happens
\* and the time afterwards
PassOutcome(r, t, d, end_time, frequency) ==
    IF r.exc # "none"
    THEN [step |-> "raise", rv |-> "None", exc |-> r.exc, t |-> t + d]
    ELSE IF PyTruthy(r.rv)
    THEN [step |-> "return", rv |-> r.rv, exc |-> "none", t |-> t + d]
    ELSE IF t + d + frequency > end_time
    THEN [step |-> "raise", rv |-> "None", exc |-> "AssertionError",
          t |-> t + d + frequency]
    ELSE [step |-> "loop", rv |-> "None", exc |-> "none", t |-> t + d + frequency]

\* one pass of the loop of WebDriverRemote._exec_with_timeout
ExecPass(b, condition, t, d, end_time, frequency) ==
    PassOutcome(Operation(b, condition), t, d, end_time, frequency)

RECURSIVE ExecFrom(_, _, _, _, _)
\* the rest of the loop after a pass with outcome p
ExecAfter(b, condition, end_time, frequency, p) ==
    IF p.step = "loop" THEN ExecFrom(b, condition, p.t, end_time, frequency)
    ELSE [rv |-> p.rv, exc |-> p.exc, log |-> <<>>, slept |-> p.t]

\* _exec_with_timeout run to its end against an unchanging page, from time t
ExecFrom(b, condition, t, end_time, frequency) ==
    ExecAfter(b, condition, end_time, frequency,
              ExecPass(b, condition, t, 0, end_time, frequency))

\* WebDriverRemote._exec_with_timeout(operation, timeout, frequency=None)
_exec_with_timeout(b, condition, timeout) ==
    ExecFrom(b, condition, 0, timeout, _default_frequency)

\* an except clause that rewraps every exception
AnyErrorToAssertion(e) == IF e = "none" THEN e ELSE "AssertionError"

\* WebDriver.wait_for: except RuntimeError, detail: raise AssertionError(...)
RuntimeErrorToAssertion(e) == IF e = "RuntimeError" THEN "AssertionError" ELSE e

\* the texts of the numbers of milliseconds written in a duration condition
DurationTexts == {"0", "250", "500"}

\* int(text) for the text of a number
int(text) == CASE text = "0" -> 0 [] text = "250" -> 250 [] text = "500" -> 500

\* WebDriver.wait_for on 'duration' / 'duration:<ms>': the milliseconds
\* slept, int(condition.split(':', 1)[1]) when there is a colon, else timeout
DurationOf(condition, timeout) ==
    IF \E i \in 1..Len(condition) : condition[i] = ":" THEN int(condition[3])
    ELSE timeout

\* WebDriver.wait_for(condition, timeout) for a string condition, and for a
\* condition that is a list (<<"list", item, ...>>), which has no startswith
WebDriver_wait_for(b, condition, timeout) ==
    IF condition = <<>> THEN Returned("None", <<>>, 0)
    ELSE IF Head(condition) = "list" THEN Raised("AttributeError", <<>>, 0)
    ELSE IF Head(condition) = "duration"
         THEN Returned("None", <<>>, DurationOf(condition, timeout))
    ELSE IF Head(condition) \in PolledPrefixes
         THEN [_exec_with_timeout(b, condition, timeout)
                 EXCEPT !.exc = RuntimeErrorToAssertion(@)]
    ELSE Returned("None", <<>>, 0)

\* a dispatch that leaves the timeout to the browser: wait_for(condition)
ClauseCallDefaultTimeout(clause, b) ==
    IF Head(clause.condition) = "callable"
    THEN Returned(clause.retval, <<clause>>, 0)
    ELSE IF b.kind = "mock" THEN MockBrowser_wait_for(clause)
    ELSE [WebDriver_wait_for(b, clause.condition, b.current_timeout)
            EXCEPT !.log = <<clause>>]

\* WebDriverWaitClause.__call__
ClauseCall(clause, b) ==
    IF Head(clause.condition) = "callable"
    THEN Returned(clause.retval, <<clause>>, 0)
    ELSE IF b.kind = "mock" THEN MockBrowser_wait_for(clause)
    ELSE [WebDriver_wait_for(b, clause.condition, 0) EXCEPT !.log = <<clause>>]

RECURSIVE Call(_, _)
RECURSIVE AllFrom(_, _, _, _, _)
RECURSIVE AnyFrom(_, _, _, _, _)
RECURSIVE AllFromNoShort(_, _, _, _, _)
RECURSIVE AnyFromNoShort(_, _, _, _, _)

\* all() that does not stop at the first false child
AllNextNoShort(kids, b, i, log, slept, r) ==
    IF r.exc # "none" THEN Raised(r.exc, log \o r.log, slept + r.slept)
    ELSE [AllFromNoShort(kids, b, i + 1, log \o r.log, slept + r.slept)
            EXCEPT !.rv = IF ~PyTruthy(r.rv) THEN "False" ELSE @]

AllFromNoShort(kids, b, i, log, slept) ==
    IF i > Len(kids) THEN Returned("True", log, slept)
    ELSE AllNextNoShort(kids, b, i, log, slept, Call(kids[i], b))

\* all(): the step after child i returned or raised r
AllNext(kids, b, i, log, slept, r) ==
    IF r.exc # "none" THEN Raised(r.exc, log \o r.log, slept + r.slept)
    ELSE IF ~PyTruthy(r.rv) THEN Returned("False", log \o r.log, slept + r.slept)
    ELSE AllFrom(kids, b, i + 1, log \o r.log, slept + r.slept)

\* all((e(browser) for e in self)), resumed at child i
AllFrom(kids, b, i, log, slept) ==
    IF i > Len(kids) THEN Returned("True", log, slept)
    ELSE AllNext(kids, b, i, log, slept, Call(kids[i], b))

\* any() that does not stop at the first true child
AnyNextNoShort(kids, b, i, log, slept, r) ==
    IF r.exc # "none" THEN Raised(r.exc, log \o r.log, slept + r.slept)
    ELSE [AnyFromNoShort(kids, b, i + 1, log \o r.log, slept + r.slept)
            EXCEPT !.rv = IF PyTruthy(r.rv) THEN "True" ELSE @]

AnyFromNoShort(kids, b, i, log, slept) ==
    IF i > Len(kids) THEN Returned("False", log, slept)
    ELSE AnyNextNoShort(kids, b, i, log, slept, Call(kids[i], b))

\* any(): the step after child i returned or raised r
AnyNext(kids, b, i, log, slept, r) ==
    IF r.exc # "none" THEN Raised(r.exc, log \o r.log, slept + r.slept)
    ELSE IF PyTruthy(r.rv) THEN Returned("True", log \o r.log, slept + r.slept)
    ELSE AnyFrom(kids, b, i + 1, log \o r.log, slept + r.slept)

\* any((e(browser) for e in self)), resumed at child i
AnyFrom(kids, b, i, log, slept) ==
    IF i > Len(kids) THEN Returned("False", log, slept)
    ELSE AnyNext(kids, b, i, log, slept, Call(kids[i], b))

\* AndExpression.__call__
AndExpression_call(node, b) == AllFrom(node.kids, b, 1, <<>>, 0)

\* OrExpression.__call__
OrExpression_call(node, b) == AnyFrom(node.kids, b, 1, <<>>, 0)

\* a dispatch that calls an OrExpression the way an AndExpression is called
CallOrAsAnd(node, b) ==
    CASE node.op \in {"AND", "OR"} -> AndExpression_call(node, b)
      [] OTHER -> ClauseCall(node, b)

\* e(browser) for a node of either kind
Call(node, b) ==
    CASE node.op = "AND" -> AndExpression_call(node, b)
      [] node.op = "OR"  -> OrExpression_call(node, b)
      [] OTHER           -> ClauseCall(node, b)

(* ---------------------------------------------------------------------- *)
(* Hand-built trees of canary clauses (tests' test_boolean_expression)    *)
(* ---------------------------------------------------------------------- *)
\* tests' CanaryClause(condition): logs and returns its condition
CanaryClause(n, condition) == WebDriverWaitClause(n, <<"callable">>, condition)

\* shapes of a child of the root: a clause, or a composite of one or two clauses
KidShapes ==
    {[op |-> "CL", vals |-> <<v>>] : v \in {"True", "False"}}
    \cup {[op |-> o, vals |-> vs] :
            o \in {"AND", "OR"},
            vs \in UNION {[1..m -> {"True", "False"}] : m \in 1..2}}

\* the i-th child of the root, its clauses numbered in depth-first order
KidAt(i, shape) ==
    IF shape.op = "CL" THEN CanaryClause(10 * i, shape.vals[1])
    ELSE [op |-> shape.op,
          kids |-> [j \in 1..Len(shape.vals) |-> CanaryClause(10 * i + j, shape.vals[j])]]

BoolTrees ==
    {[op |-> o, kids |-> [i \in 1..Len(shapes) |-> KidAt(i, shapes[i])]] :
        o \in {"AND", "OR"},
        shapes \in UNION {[1..m -> KidShapes] : m \in 0..MaxKids}}

\* an evaluation that returned or raised r; faulted tells whether one of its
\* remote calls was answered with an injected fault
Ticked(r, fault) ==
    [rv |-> r.rv, exc |-> r.exc, log |-> r.log, slept |-> r.slept,
     faulted |-> fault # NoFault, interrupted |-> fault.interrupt # "none",
     status |-> fault.status]

NoTick == Ticked(Returned("None", <<>>, 0), NoFault)

NoWait == [kind |-> "none"]

InitBool ==
    /\ expression \in BoolTrees
    /\ browser = MockBrowser
    /\ pc = "built"
    /\ rv = "None"
    /\ exc = "none"
    /\ call_log = <<>>
    /\ tick = NoTick
    /\ now = 0
    /\ wait = NoWait
    /\ chain = <<>>

\* cl('browser') returned or raised r
Evaluated(r) ==
    /\ rv' = r.rv
    /\ exc' = r.exc
    /\ call_log' = call_log \o r.log
    /\ tick' = Ticked(r, NoFault)
    /\ pc' = "done"
    /\ UNCHANGED <<expression, browser, now, wait, chain>>

\* cl('browser')
Evaluate ==
    /\ pc = "built"
    /\ Evaluated(Call(expression, browser))

NextBool == Evaluate

SpecBool == InitBool /\ [][NextBool]_vars

(* ---------------------------------------------------------------------- *)
(* WebDriverWaitExpression: the builder                                   *)
(* ---------------------------------------------------------------------- *)
RECURSIVE Clauses(_)
RECURSIVE ClausesOfKids(_, _)
\* the clauses of a tree, depth first, left to right
Clauses(node) ==
    IF node.op = "CL" THEN <<node>> ELSE ClausesOfKids(node.kids, 1)

ClausesOfKids(kids, i) ==
    IF i > Len(kids) THEN <<>> ELSE Clauses(kids[i]) \o ClausesOfKids(kids, i + 1)

RECURSIVE NumOrs(_)
RECURSIVE NumOrsOfKids(_, _)
\* the OrExpression nodes of a tree
NumOrs(node) ==
    IF node.op = "CL" THEN 0
    ELSE (IF node.op = "OR" THEN 1 ELSE 0) + NumOrsOfKids(node.kids, 1)

NumOrsOfKids(kids, i) ==
    IF i > Len(kids) THEN 0 ELSE NumOrs(kids[i]) + NumOrsOfKids(kids, i + 1)

\* WebDriverWaitExpression._to_locator for a selector string: a string that
\* _locator_re matches is kept, any other gets the css= prefix
WebDriverWaitExpression_to_locator(expr) ==
    IF Len(expr) > 1 /\ Head(expr) \in {"css=", "xpath=", "id=", "value=", "label="}
    THEN expr
    ELSE <<"css=">> \o expr

\* or_ of the base class WaitExpression: returns self, changes nothing
or_expression_noop(e) == e

\* WebDriverWaitExpression.or_
or_expression(e) == OrExpression(<<e>>)

\* _append that closes the OrExpression only at its third child
_append_closelate(e, clause) ==
    IF e.op = "OR" /\ Len(e.kids) >= 2
    THEN AndExpression(<<[e EXCEPT !.kids = Append(@, clause)]>>)
    ELSE [e EXCEPT !.kids = Append(@, clause)]

\* _append that closes the OrExpression before appending to it
_append_closefirst(e, clause) ==
    IF e.op = "OR" THEN AndExpression(<<e, clause>>)
    ELSE [e EXCEPT !.kids = Append(@, clause)]

\* _append that never closes the OrExpression
_append_noclose(e, clause) == [e EXCEPT !.kids = Append(@, clause)]

\* WebDriverWaitExpression._append
_append(e, clause) ==
    LET appended == [e EXCEPT !.kids = Append(@, clause)] IN
    IF appended.op = "OR" THEN AndExpression(<<appended>>) ELSE appended

\* the selector the k-th builder call is given
SelectorAt(k) ==
    IF browser.kind = "mock" /\ k % 2 = 0 THEN <<"#id2">> ELSE <<"#id1">>

\* the keyword arguments a builder call is given: retval on a MockBrowser
\* (the tests' way to fix what wait_for returns), none on a WebDriver
RetvalArgs == IF browser.kind = "mock" THEN {"True", "False"} ELSE {"None"}

ClauseBound == IF browser.kind = "mock" THEN MaxClauses ELSE MaxWaitClauses

OrBound == IF browser.kind = "mock" THEN MaxOrs ELSE MaxWaitOrs

\* a builder call that appends wait_clause_factory(prefix + locator, **kw)
AppendCondition(prefix, text, retval) ==
    /\ pc = "build"
    /\ Len(Clauses(expression)) < ClauseBound
    /\ expression' = _append(expression,
           WebDriverWaitClause(Len(Clauses(expression)) + 1, <<prefix>> \o text, retval))
    /\ chain' = Append(chain, [call |-> "clause", n |-> Len(Clauses(expression)) + 1])
    /\ UNCHANGED <<browser, pc, rv, exc, call_log, tick, now, wait>>

element_present ==
    \E retval \in RetvalArgs :
        AppendCondition("element:",
            WebDriverWaitExpression_to_locator(SelectorAt(Len(Clauses(expression)) + 1)),
            retval)

element_not_present ==
    \E retval \in RetvalArgs :
        AppendCondition("!element:",
            WebDriverWaitExpression_to_locator(SelectorAt(Len(Clauses(expression)) + 1)),
            retval)

element_visible ==
    \E retval \in RetvalArgs :
        AppendCondition("visible:",
            WebDriverWaitExpression_to_locator(SelectorAt(Len(Clauses(expression)) + 1)),
            retval)

element_not_visible ==
    \E retval \in RetvalArgs :
        AppendCondition("!visible:",
            WebDriverWaitExpression_to_locator(SelectorAt(Len(Clauses(expression)) + 1)),
            retval)

page_ready ==
    \E retval \in RetvalArgs : AppendCondition("js:", page_ready_expr, retval)

or_ ==
    /\ pc = "build"
    /\ NumOrs(expression) < OrBound
    /\ expression' = or_expression(expression)
    /\ chain' = Append(chain, [call |-> "or_", n |-> 0])
    /\ UNCHANGED <<browser, pc, rv, exc, call_log, tick, now, wait>>

(* ---------------------------------------------------------------------- *)
(* WebDriverWaitExpression.__call__: the polling loop                     *)
(* ---------------------------------------------------------------------- *)
Period == _default_frequency

\* timeout=None, as a number
NoneArg == 0 - 1

TimeoutArgs ==
    IF browser.kind = "mock" THEN {NoneArg, 0}
    ELSE {NoneArg} \cup {k * Period : k \in 0..MaxTimeout}

Latencies == IF browser.kind = "mock" THEN {0} ELSE {k * Period : k \in 0..MaxLatency}

\* a remote call answered with a non-success response during one evaluation
Faults ==
    IF browser.kind = "mock" THEN {NoFault}
    ELSE {NoFault}
         \cup {[call |-> "element", status |-> 99, interrupt |-> "none"],
               [call |-> "element", status |-> 32, interrupt |-> "none"],
               [call |-> "displayed", status |-> 10, interrupt |-> "none"],
               [call |-> "displayed", status |-> 11, interrupt |-> "none"],
               [call |-> "execute", status |-> 17, interrupt |-> "none"]}

\* expr(browser, timeout): up to the first pass of the loop
WaitExpression_call ==
    /\ pc = "build"
    /\ \E timeout \in TimeoutArgs :
         wait' = [kind |-> "expression",
                  timeout |-> IF timeout = NoneArg THEN browser.current_timeout
                              ELSE timeout,
                  start_time |-> now]
    /\ pc' = "polling"
    /\ UNCHANGED <<expression, browser, rv, exc, call_log, tick, now, chain>>

\* a pass whose rv is never looked at
PassValueNeverTrue(r) == "None"

\* rv of one pass: an AssertionError is caught and leaves rv = None
PassValue(r) == IF r.exc = "AssertionError" THEN "None" ELSE r.rv

\* a loop that goes on until the elapsed time exceeds the timeout
ExpressionPassedStrict(r, fault, d, t) ==
    /\ tick' = Ticked(r, fault)
    /\ now' = t
    /\ call_log' = IF browser.kind = "mock" THEN call_log \o r.log ELSE call_log
    /\ IF r.exc \notin {"none", "AssertionError"}
       THEN /\ pc' = "done" /\ exc' = r.exc /\ rv' = rv
       ELSE IF PyTruthy(PassValue(r))
       THEN /\ pc' = "done" /\ rv' = "True" /\ exc' = exc
       ELSE IF t - wait.start_time > wait.timeout
       THEN /\ pc' = "done" /\ rv' = "False" /\ exc' = exc
       ELSE /\ pc' = "polling" /\ rv' = rv /\ exc' = exc
    /\ UNCHANGED <<expression, browser, wait, chain>>

\* one pass of `while True:` after self._expression(browser) returned or
\* raised r, the pass ending at time t
ExpressionPassed(r, fault, d, t) ==
    /\ tick' = Ticked(r, fault)
    /\ now' = t
    /\ call_log' = IF browser.kind = "mock" THEN call_log \o r.log ELSE call_log
    /\ IF r.exc \notin {"none", "AssertionError"}
       THEN /\ pc' = "done" /\ exc' = r.exc /\ rv' = rv
       ELSE IF PyTruthy(PassValue(r))
       THEN /\ pc' = "done" /\ rv' = "True" /\ exc' = exc
       ELSE IF t - wait.start_time >= wait.timeout
       THEN /\ pc' = "done" /\ rv' = "False" /\ exc' = exc
       ELSE /\ pc' = "polling" /\ rv' = rv /\ exc' = exc
    /\ UNCHANGED <<expression, browser, wait, chain>>

\* the time at which a pass ends that started now, took d and slept r.slept
PassEnd(r, d) == now + d + r.slept

\* one pass of `while True:` in WebDriverWaitExpression.__call__
ExpressionPass ==
    /\ pc = "polling"
    /\ \E d \in Latencies, fault \in Faults :
         \E r \in {Call(expression, [browser EXCEPT !.fault = fault])} :
             ExpressionPassed(r, fault, d, PassEnd(r, d))

InitBuild ==
    /\ expression = AndExpression(<<>>)
    /\ browser = MockBrowser
    /\ pc = "build"
    /\ rv = "None"
    /\ exc = "none"
    /\ call_log = <<>>
    /\ tick = NoTick
    /\ now = 0
    /\ wait = NoWait
    /\ chain = <<>>

NextBuild ==
    \/ element_present
    \/ element_not_present
    \/ or_
    \/ WaitExpression_call
    \/ ExpressionPass

SpecBuild == InitBuild /\ [][NextBuild]_vars

(* ---------------------------------------------------------------------- *)
(* Waits on a WebDriver                                                   *)
(* ---------------------------------------------------------------------- *)
\* the default_timeout the WebDriver was constructed with (16000 unless
\* given), set as the session's current timeout: two poll periods here
default_timeout == 2 * Period

\* the elements the waits on a WebDriver look at
WatchedSelectors == {"#id1"}

\* a page with none of the elements and no sentinel flag
BlankPage ==
    [el |-> [s \in Selectors |-> "absent"], flag |-> "undefined", jquery |-> NoJQuery]

\* the string conditions given to WebDriver.wait_for
StringConditions ==
    {<<prefix, "css=", s>> : prefix \in {"element:", "!element:", "visible:", "!visible:"},
                             s \in WatchedSelectors}
    \cup {<<"js:">> \o page_ready_expr}

\* WebDriver.wait_for(condition, timeout) with a polled string condition,
\* down to the first pass of the loop of _exec_with_timeout
wait_for_string ==
    /\ pc = "build"
    /\ expression = AndExpression(<<>>)
    /\ \E condition \in StringConditions, timeout \in TimeoutArgs :
         wait' = [kind |-> "string",
                  condition |-> condition,
                  timeout |-> IF timeout = NoneArg THEN browser.current_timeout
                              ELSE timeout,
                  start_time |-> now]
    /\ pc' = "exec"
    /\ UNCHANGED <<expression, browser, rv, exc, call_log, tick, now, chain>>

\* one pass of the loop of _exec_with_timeout with outcome p
ExecPassed(p, fault, d) ==
    /\ tick' = [rv |-> p.rv, exc |-> p.exc, log |-> <<>>, slept |-> p.t - now - d,
                faulted |-> fault # NoFault, interrupted |-> fault.interrupt # "none",
     status |-> fault.status]
    /\ now' = p.t
    /\ CASE p.step = "return" -> /\ pc' = "done" /\ rv' = p.rv /\ exc' = exc
         [] p.step = "raise"  -> /\ pc' = "done" /\ rv' = rv
                                 /\ exc' = RuntimeErrorToAssertion(p.exc)
         [] OTHER             -> /\ pc' = "exec" /\ rv' = rv /\ exc' = exc
    /\ UNCHANGED <<expression, browser, call_log, wait, chain>>

\* one pass of `while(True):` in WebDriverRemote._exec_with_timeout
ExecTick ==
    /\ pc = "exec"
    /\ \E d \in Latencies, fault \in Faults :
         ExecPassed(ExecPass([browser EXCEPT !.fault = fault], wait.condition, now, d,
                             wait.start_time + wait.timeout, _default_frequency),
                    fault, d)

\* the page changes while a wait is polling
PageChange ==
    /\ pc \in {"polling", "exec"}
    /\ \/ \E s \in WatchedSelectors, e \in ElementStates :
            /\ browser.page.el[s] # e
            /\ browser' = [browser EXCEPT !.page.el[s] = e]
       \/ browser' = [browser EXCEPT !.page.flag =
                          IF @ = "true" THEN "undefined" ELSE "true"]
    /\ UNCHANGED <<expression, pc, rv, exc, call_log, tick, now, wait, chain>>

InitWait ==
    /\ expression = AndExpression(<<>>)
    /\ browser = WebDriver(default_timeout, BlankPage)
    /\ pc = "build"
    /\ rv = "None"
    /\ exc = "none"
    /\ call_log = <<>>
    /\ tick = NoTick
    /\ now = 0
    /\ wait = NoWait
    /\ chain = <<>>

NextWait ==
    \/ element_present
    \/ element_not_present
    \/ element_visible
    \/ element_not_visible
    \/ page_ready
    \/ or_
    \/ WaitExpression_call
    \/ ExpressionPass
    \/ wait_for_string
    \/ ExecTick
    \/ PageChange

SpecWait == InitWait /\ [][NextWait]_vars

(* ---------------------------------------------------------------------- *)
(* _exec_with_timeout on a condition that stays false                     *)
(* ---------------------------------------------------------------------- *)
\* the frequency arguments given to WebDriver.wait_for
Frequencies == {k * Period : k \in 1..MaxFrequency}

\* the timeout arguments of a wait that is left to run out
PollTimeouts == {k * Period : k \in 0..MaxPollTimeout}

\* operation() returns a false value on the page of b, no call failing
Unmet(b, condition) ==
    \E r \in {Operation(b, condition)} : r.exc = "none" /\ ~PyTruthy(r.rv)

\* WebDriver.wait_for(condition, timeout, frequency) on a page that does not
\* satisfy the condition, down to the first pass of the loop
wait_for_unmet ==
    /\ pc = "build"
    /\ \E condition \in StringConditions, timeout \in PollTimeouts,
          frequency \in Frequencies :
         /\ Unmet(browser, condition)
         /\ wait' = [kind |-> "string",
                     condition |-> condition,
                     timeout |-> timeout,
                     frequency |-> frequency,
                     start_time |-> now]
    /\ pc' = "exec"
    /\ UNCHANGED <<expression, browser, rv, exc, call_log, tick, now, chain>>

\* one pass of the loop with outcome p; call_log counts the calls of operation
PollPassed(p, d) ==
    /\ tick' = [rv |-> p.rv, exc |-> p.exc, log |-> <<>>, slept |-> p.t - now - d,
                faulted |-> FALSE, interrupted |-> FALSE, status |-> 0]
    /\ now' = p.t
    /\ call_log' = Append(call_log, wait.condition)
    /\ CASE p.step = "return" -> /\ pc' = "done" /\ rv' = p.rv /\ exc' = exc
         [] p.step = "raise"  -> /\ pc' = "done" /\ rv' = rv
                                 /\ exc' = RuntimeErrorToAssertion(p.exc)
         [] OTHER             -> /\ pc' = "exec" /\ rv' = rv /\ exc' = exc
    /\ UNCHANGED <<expression, browser, wait, chain>>

\* one pass of `while(True):` taking d for the remote call, the page unchanged
PollTick ==
    /\ pc = "exec"
    /\ \E d \in Latencies :
         PollPassed(ExecPass(browser, wait.condition, now, d,
                             wait.start_time + wait.timeout, wait.frequency), d)

InitPoll ==
    /\ expression = AndExpression(<<>>)
    /\ browser \in {WebDriver(default_timeout, page) : page \in Pages}
    /\ pc = "build"
    /\ rv = "None"
    /\ exc = "none"
    /\ call_log = <<>>
    /\ tick = NoTick
    /\ now = 0
    /\ wait = NoWait
    /\ chain = <<>>

NextPoll ==
    \/ wait_for_unmet
    \/ PollTick

SpecPoll == InitPoll /\ [][NextPoll]_vars

(* ---------------------------------------------------------------------- *)
(* Expressions over two elements waited on a WebDriver                    *)
(* ---------------------------------------------------------------------- *)
\* WebDriverWaitExpression.element_present(expr) for either selector
element_present_either ==
    \E s \in Selectors :
        AppendCondition("element:", WebDriverWaitExpression_to_locator(<<s>>), "None")

NextOr ==
    \/ element_present_either
    \/ or_
    \/ WaitExpression_call
    \/ ExpressionPass

SpecOr == InitPoll /\ [][NextOr]_vars

(* ---------------------------------------------------------------------- *)
(* Waits during which the process is interrupted                          *)
(* ---------------------------------------------------------------------- *)
\* an interrupt delivered during a remote call of one evaluation
InterruptFaults ==
    {[call |-> "element", status |-> 0, interrupt |-> i] :
        i \in {"request", "lookup", "message"}}
    \cup {[call |-> "execute", status |-> 0, interrupt |-> "request"]}

\* the first remote call operation() makes for a condition
FirstCall(condition) == IF Head(condition) = "js:" THEN "execute" ELSE "element"

\* the interrupt of `fault` is delivered in the first remote call made for
\* condition: always inside the request, inside the try of the error branch
\* only when the server answers that call with a non-success response
Lands(b, condition, fault) ==
    /\ fault.call = FirstCall(condition)
    /\ \/ fault.interrupt = "request"
       \/ /\ fault.call = "element"
          /\ \E r \in {ElementResponse(b, WebDriverRemote_to_locator(Tail(condition)))} :
                r.exc # "none"

\* one pass of WebDriverWaitExpression.__call__ during whose first remote
\* call the process is interrupted
InterruptedPass ==
    /\ pc = "polling"
    /\ Clauses(expression) # <<>>
    /\ \E d \in Latencies, fault \in InterruptFaults :
         /\ Lands(browser, Clauses(expression)[1].condition, fault)
         /\ \E r \in {Call(expression, [browser EXCEPT !.fault = fault])} :
               ExpressionPassed(r, fault, d, PassEnd(r, d))

\* one pass of _exec_with_timeout during whose first remote call the process
\* is interrupted
InterruptedTick ==
    /\ pc = "exec"
    /\ \E d \in Latencies, fault \in InterruptFaults :
         /\ Lands(browser, wait.condition, fault)
         /\ ExecPassed(ExecPass([browser EXCEPT !.fault = fault], wait.condition, now,
                                d, wait.start_time + wait.timeout, _default_frequency),
                       fault, d)

InitCancel ==
    /\ expression = AndExpression(<<>>)
    /\ browser \in {WebDriver(default_timeout, page) :
                      page \in {p \in Pages : p.el["#id2"] = "absent"}}
    /\ pc = "build"
    /\ rv = "None"
    /\ exc = "none"
    /\ call_log = <<>>
    /\ tick = NoTick
    /\ now = 0
    /\ wait = NoWait
    /\ chain = <<>>

NextCancel ==
    \/ element_present
    \/ element_not_present
    \/ element_visible
    \/ element_not_visible
    \/ page_ready
    \/ or_
    \/ WaitExpression_call
    \/ ExpressionPass
    \/ InterruptedPass
    \/ wait_for_string
    \/ ExecTick
    \/ InterruptedTick

SpecCancel == InitCancel /\ [][NextCancel]_vars

(* ---------------------------------------------------------------------- *)
(* Builder calls given a timeout keyword                                  *)
(* ---------------------------------------------------------------------- *)
\* the timeout keyword of a builder call: not given, or a number
KwTimeouts == {NoneArg} \cup {k * Period : k \in 0..MaxKwTimeout}

\* WebDriverWaitClause(condition, timeout=...): kw.pop('timeout', None)
\* drops the keyword, self.kw keeps the other keywords (none here)
wait_clause_factory(n, condition, timeout) == WebDriverWaitClause(n, condition, "None")

\* a builder call element_present(expr, timeout=...) or
\* element_not_present(expr, timeout=...); chain keeps the keyword given
AppendWithTimeout(prefix, timeout) ==
    /\ pc = "build"
    /\ Len(Clauses(expression)) < ClauseBound
    /\ expression' = _append(expression,
           wait_clause_factory(Len(Clauses(expression)) + 1,
               <<prefix>> \o WebDriverWaitExpression_to_locator(<<"#id1">>), timeout))
    /\ chain' = Append(chain, [call |-> "clause", n |-> Len(Clauses(expression)) + 1,
                               timeout |-> timeout])
    /\ UNCHANGED <<browser, pc, rv, exc, call_log, tick, now, wait>>

element_present_timeout == \E timeout \in KwTimeouts : AppendWithTimeout("element:", timeout)

element_not_present_timeout ==
    \E timeout \in KwTimeouts : AppendWithTimeout("!element:", timeout)

NextKw ==
    \/ element_present_timeout
    \/ element_not_present_timeout
    \/ WaitExpression_call
    \/ ExpressionPass

SpecKw == InitCancel /\ [][NextKw]_vars

(* ---------------------------------------------------------------------- *)
(* Visibility checks on a page that does not change                       *)
(* ---------------------------------------------------------------------- *)
NextVisible ==
    \/ element_visible
    \/ element_not_visible
    \/ WaitExpression_call
    \/ ExpressionPass
    \/ wait_for_string
    \/ ExecTick

SpecVisible == InitCancel /\ [][NextVisible]_vars

(* ---------------------------------------------------------------------- *)
(* Waits that are run to their end                                        *)
(* ---------------------------------------------------------------------- *)
NextLive ==
    \/ element_visible
    \/ element_not_visible
    \/ WaitExpression_call
    \/ ExpressionPass
    \/ wait_for_string
    \/ ExecTick

\* a wait that has been started keeps running: the loop of
\* _exec_with_timeout and the loop of WebDriverWaitExpression.__call__ make
\* their next pass, whose evaluation ends
SpecLive ==
    /\ InitCancel
    /\ [][NextLive]_vars
    /\ WF_vars(ExecTick)
    /\ WF_vars(ExpressionPass)

(* ---------------------------------------------------------------------- *)
(* _raw_call on a non-success response                                    *)
(* ---------------------------------------------------------------------- *)
\* the wire status codes a response body carries
StatusCodes == 0..MaxStatus

\* the non-success responses: the body is JSON or not; its 'value' is an
\* object with a 'state', an object without, or no object
Responses ==
    [kind : {"response"}, body : {"json", "text"}, status : StatusCodes,
     value : {"state", "nostate", "string"}]

\* msg of the exception: data['value'].get('state') or error['detail'] when
\* the try block runs to its end, 'Invalid Request: %s' % response.text when
\* the bare except is entered
_raw_call_msg(response) ==
    IF response.body = "json"
          /\ _raw_call_error(response.status) # "RuntimeError"
          /\ response.value # "string"
    THEN IF response.value = "state" THEN <<"state">>
         ELSE <<"detail", response.status>>
    ELSE <<"Invalid Request: ", "response.text">>

\* exc of raise exc(msg): the class looked up for the status of a JSON body
_raw_call_exc(response) ==
    IF response.body = "json" THEN _raw_call_error(response.status)
    ELSE "RuntimeError"

\* _raw_call: if not response.status_code < 300: ... raise exc(msg)
RawCallRaise ==
    /\ pc = "built"
    /\ wait.kind = "response"
    /\ exc' = _raw_call_exc(wait)
    /\ rv' = _raw_call_msg(wait)
    /\ pc' = "done"
    /\ UNCHANGED <<expression, browser, call_log, tick, now, wait, chain>>

InitClassify ==
    /\ expression = AndExpression(<<>>)
    /\ browser = WebDriver(default_timeout, BlankPage)
    /\ pc = "built"
    /\ rv = "None"
    /\ exc = "none"
    /\ call_log = <<>>
    /\ tick = NoTick
    /\ now = 0
    /\ wait \in Responses
    /\ chain = <<>>

NextClassify == RawCallRaise

SpecClassify == InitClassify /\ [][NextClassify]_vars

(* ---------------------------------------------------------------------- *)
(* SeleniumWaitExpression: the expression compiled to a script            *)
(* ---------------------------------------------------------------------- *)
\* OR = object(), the sentinel or_() records
OR == [kind |-> "OR", js |-> <<>>]

\* a JavaScript fragment recorded in _expressions, its text as tokens
Fragment(js) == [kind |-> "js", js |-> js]

\* the line break inside the text of a fragment
NL == "\n"

\* the finders given to the builder calls: selector strings (as tokens),
\* document elements with a _locator, and objects that are neither (None and
\* the number 42, text their repr)
Finders ==
    {[type |-> "str", text |-> t] :
        t \in {<<"#id1">>, <<"css=", "#id1">>, <<"xpath=", "//a">>,
               <<"a[rel=", "'", "x", "'", "]">>}}
    \cup {[type |-> "element", text |-> <<"id=", "e1">>]}
    \cup {[type |-> "object", text |-> t] : t \in {<<"None">>, <<"42">>}}

\* the finders a locator can be made of
Locatable == {f \in Finders : f.type # "object"}

\* js_quote(string): backslashes and single quotes escaped
js_quote(string) ==
    [i \in 1..Len(string) |->
        CASE string[i] = "\\" -> "\\\\"
          [] string[i] = "'"  -> "\\'"
          [] OTHER            -> string[i]]

\* SeleniumWaitExpression.to_locator for a string or an element
Selenium_to_locator(finder) ==
    IF finder.type = "str" THEN <<"css=">> \o finder.text ELSE finder.text

\* SeleniumWaitExpression.evaluation_log(label, var_name, locator)
evaluation_log(label, var_name, locator) ==
    <<"LOG.info('wait_for ", label, "(">> \o js_quote(locator)
        \o <<")=' + ", var_name, ");">>

\* SeleniumWaitExpression.predicate_log(label, var_name)
predicate_log(label, var_name) ==
    <<"LOG.info('wait_for ", label, " ==' + ", var_name, ");">>

\* SeleniumWaitExpression._is_element_present(label, finder, result)
_is_element_present(label, finder, result) ==
    <<"(function () {", NL, "var found = true;", NL, "try {", NL,
      "selenium.browserbot.findElement('">>
        \o js_quote(Selenium_to_locator(finder))
        \o <<"');", NL, "} catch (e) {", NL, "found = false;", NL, "};", NL>>
        \o evaluation_log(label, "found", Selenium_to_locator(finder))
        \o <<NL, "return found == ", result, ";", NL, "})()">>

\* SeleniumWaitExpression._is_element_visible(label, finder, result): the
\* text begins and ends with a line break, the log is not used
_is_element_visible(label, finder, result) ==
    <<NL, "(function() {", NL, "var visible;", NL, "try {", NL,
      "visible = selenium.isVisible(\"">>
        \o js_quote(Selenium_to_locator(finder))
        \o <<"\");", NL, "} catch(e) {", NL, "visible = false;", NL, "}", NL,
             "return visible == ", result, ";", NL, "})()", NL>>

Selenium_ajax_pending_expr == <<"var pending = window.jQuery && window.jQuery.active != 0;">>

Selenium_ajax_complete_expr == <<"var complete = window.jQuery && window.jQuery.active == 0;">>

\* the fragment of ajax_pending / ajax_complete
AjaxFragment(expr, label, var_name) ==
    <<"(function() {", NL>> \o expr \o <<NL>> \o predicate_log(label, var_name)
        \o <<NL, "return ", var_name, ";", NL, "})()">>

RECURSIVE ComponentsAndAfterOr(_, _, _)
\* a loop that puts '&&' before every fragment but the first
ComponentsAndAfterOr(items, i, last) ==
    IF i > Len(items) THEN <<>>
    ELSE IF items[i] = OR
    THEN <<<<"||">>>> \o ComponentsAndAfterOr(items, i + 1, items[i])
    ELSE (IF i > 1 THEN <<<<"&&">>>> ELSE <<>>)
            \o <<items[i].js>> \o ComponentsAndAfterOr(items, i + 1, items[i])

RECURSIVE Components(_, _, _)
\* the loop of __unicode__ from item i on, `last` the item before it (OR when
\* there is none: `last not in (None, OR)` treats both alike)
Components(items, i, last) ==
    IF i > Len(items) THEN <<>>
    ELSE IF items[i] = OR
    THEN <<<<"||">>>> \o Components(items, i + 1, items[i])
    ELSE (IF last # OR THEN <<<<"&&">>>> ELSE <<>>)
            \o <<items[i].js>> \o Components(items, i + 1, items[i])

RECURSIVE Join(_, _)
\* u' '.join(components), as tokens
Join(components, i) ==
    IF i > Len(components) THEN <<>>
    ELSE (IF i > 1 THEN <<" ">> ELSE <<>>) \o components[i] \o Join(components, i + 1)

\* .replace('\n', ' ')
ReplaceNL(text) == [i \in 1..Len(text) |-> IF text[i] = NL THEN " " ELSE text[i]]

\* SeleniumWaitExpression.__unicode__
Selenium_unicode(items) == ReplaceNL(Join(Components(items, 1, OR), 1))

\* self._expressions.append(item); call_log keeps the locators that
\* to_locator returned for the finders of the builder calls
Selenium_append(item, located) ==
    /\ pc = "build"
    /\ Len(expression) < MaxItems
    /\ expression' = Append(expression, item)
    /\ call_log' = call_log \o located
    /\ UNCHANGED <<browser, pc, rv, exc, tick, now, wait, chain>>

\* locator = self.to_locator(finder)
Located(finder) == <<[finder |-> finder, locator |-> Selenium_to_locator(finder)]>>

\* "Unknown page element %r" % expr
UnknownPageElement(finder) == <<"Unknown page element ">> \o finder.text

\* a builder call given a finder for which to_locator raises
\* RuntimeError("Unknown page element %r" % expr); rv keeps the message
Selenium_unknown_element ==
    /\ pc = "build"
    /\ Len(expression) < MaxItems
    /\ \E finder \in Finders \ Locatable :
          /\ exc' = "RuntimeError"
          /\ rv' = UnknownPageElement(finder)
    /\ pc' = "done"
    /\ UNCHANGED <<expression, browser, call_log, tick, now, wait, chain>>

\* SeleniumWaitExpression.element_present(finder)
Selenium_element_present ==
    \E finder \in Locatable :
        Selenium_append(Fragment(_is_element_present("element_present", finder, "true")),
                        Located(finder))

\* SeleniumWaitExpression.element_not_visible(finder)
Selenium_element_not_visible ==
    \E finder \in Locatable :
        Selenium_append(Fragment(_is_element_visible("element_not_visible", finder, "false")),
                        Located(finder))

\* SeleniumWaitExpression.ajax_pending()
Selenium_ajax_pending ==
    Selenium_append(Fragment(AjaxFragment(Selenium_ajax_pending_expr, "ajax_pending", "pending")),
                    <<>>)

\* SeleniumWaitExpression.ajax_complete()
Selenium_ajax_complete ==
    Selenium_append(Fragment(AjaxFragment(Selenium_ajax_complete_expr, "ajax_complete", "complete")),
                    <<>>)

\* SeleniumWaitExpression.or_()
Selenium_or_ == Selenium_append(OR, <<>>)

\* unicode(expr): the expression is rendered
Render ==
    /\ pc = "build"
    /\ rv' = Selenium_unicode(expression)
    /\ pc' = "done"
    /\ UNCHANGED <<expression, browser, exc, call_log, tick, now, wait, chain>>

InitSelenium ==
    /\ expression = <<>>
    /\ browser = [kind |-> "selenium", current_timeout |-> 0, fault |-> NoFault]
    /\ pc = "build"
    /\ rv = "None"
    /\ exc = "none"
    /\ call_log = <<>>
    /\ tick = NoTick
    /\ now = 0
    /\ wait = NoWait
    /\ chain = <<>>

NextSelenium ==
    \/ Selenium_element_present
    \/ Selenium_element_not_visible
    \/ Selenium_ajax_pending
    \/ Selenium_ajax_complete
    \/ Selenium_or_
    \/ Selenium_unknown_element
    \/ Render

SpecSelenium == InitSelenium /\ [][NextSelenium]_vars

(* ---------------------------------------------------------------------- *)
(* WebDriver.wait_for called with each form of string condition           *)
(* ---------------------------------------------------------------------- *)
\* the locators written after the prefix of a condition: a bare selector and
\* the same selector as the builder writes it
DirectLocators == {<<"#id1">>, <<"css=", "#id1">>}

\* the conditions given to WebDriver.wait_for: None / '', 'duration',
\* 'duration:<ms>', the element conditions and a script
DirectConditions ==
    {<<>>, <<"duration">>}
    \cup {<<"duration", ":", ms>> : ms \in DurationTexts}
    \cup {<<prefix>> \o locator :
            prefix \in {"element:", "!element:", "visible:", "!visible:"},
            locator \in DirectLocators}
    \cup {<<"js:">> \o page_ready_expr}

\* what the process does besides computing: a request sent to the server
\* (call, using, value) or time.sleep (ms)
Request(call, using, value) == [call |-> call, using |-> using, value |-> value, ms |-> 0]

Sleep(ms) == [call |-> "sleep", using |-> "", value |-> <<>>, ms |-> ms]

\* the requests of operation() for an element condition given the answer r
\* to the lookup: POST element, then GET displayed when the lookup returned
\* and the condition is about visibility
ElementRequests(condition, locator, r) ==
    <<Request("element", locator[1], locator[2])>>
        \o (IF Head(condition) \in {"visible:", "!visible:"} /\ r.exc = "none"
            THEN <<Request("displayed", "", <<r.rv>>)>> ELSE <<>>)

\* the requests operation() sends for a condition
Requests(b, condition) ==
    IF Head(condition) = "js:" THEN <<Request("execute", "", Tail(condition))>>
    ELSE ElementRequests(condition, WebDriverRemote_to_locator(Tail(condition)),
                         PostElement(b, WebDriverRemote_to_locator(Tail(condition))))

\* if timeout: time.sleep(timeout / 1000.0)
Sleeps(ms) == IF ms # 0 THEN <<Sleep(ms)>> ELSE <<>>

\* wait_for returned or raised r without polling
DirectReturned(r) ==
    /\ rv' = r.rv
    /\ exc' = r.exc
    /\ now' = now + r.slept
    /\ call_log' = call_log \o Sleeps(r.slept)
    /\ pc' = "done"

\* WebDriver.wait_for(condition, timeout): to its end for the conditions that
\* are not polled, down to the first pass of _exec_with_timeout for the others
wait_for_direct ==
    /\ pc = "build"
    /\ \E condition \in DirectConditions, timeout \in TimeoutArgs :
         /\ wait' = [kind |-> "string",
                     condition |-> condition,
                     timeout |-> IF timeout = NoneArg THEN browser.current_timeout
                                 ELSE timeout,
                     start_time |-> now]
         /\ IF condition # <<>> /\ Head(condition) \in PolledPrefixes
            THEN /\ pc' = "exec"
                 /\ UNCHANGED <<rv, exc, now, call_log>>
            ELSE DirectReturned(WebDriver_wait_for(browser, condition, wait'.timeout))
    /\ UNCHANGED <<expression, browser, tick, chain>>

\* one pass of the loop of _exec_with_timeout with outcome p, the requests
\* and the sleep of the pass recorded
DirectPassed(p, d) ==
    /\ tick' = [rv |-> p.rv, exc |-> p.exc, log |-> <<>>, slept |-> p.t - now - d,
                faulted |-> FALSE, interrupted |-> FALSE, status |-> 0]
    /\ now' = p.t
    /\ call_log' = call_log \o Requests(browser, wait.condition) \o Sleeps(p.t - now - d)
    /\ CASE p.step = "return" -> /\ pc' = "done" /\ rv' = p.rv /\ exc' = exc
         [] p.step = "raise"  -> /\ pc' = "done" /\ rv' = rv
                                 /\ exc' = RuntimeErrorToAssertion(p.exc)
         [] OTHER             -> /\ pc' = "exec" /\ rv' = rv /\ exc' = exc
    /\ UNCHANGED <<expression, browser, wait, chain>>

\* one pass of `while(True):` in _exec_with_timeout, the page unchanged
DirectTick ==
    /\ pc = "exec"
    /\ \E d \in Latencies :
         DirectPassed(ExecPass(browser, wait.condition, now, d,
                               wait.start_time + wait.timeout, _default_frequency), d)

NextDirect ==
    \/ wait_for_direct
    \/ DirectTick

SpecDirect == InitCancel /\ [][NextDirect]_vars

(* ---------------------------------------------------------------------- *)
(* WebDriverWaitExpression configured at instantiation                    *)
(* ---------------------------------------------------------------------- *)
\* the directive specs given to the constructor: [directive, *args]
DirectiveSpecs ==
    {<<"list", "element_present", "#id1">>, <<"list", "element_not_present", "#id1">>,
     <<"list", "page_ready">>, <<"list", "or_">>}

\* WebDriverWaitExpression.__init__(*expressions):
\* clauses = [self.wait_clause_factory(e) for e in expressions];
\* self._expression = AndExpression(*clauses).  chain keeps the specs given.
WebDriverWaitExpression_init ==
    /\ pc = "build"
    /\ chain = <<>>
    /\ \E specs \in UNION {[1..k -> DirectiveSpecs] : k \in 1..MaxSpecs} :
          /\ expression' = AndExpression(
                 [i \in 1..Len(specs) |-> WebDriverWaitClause(i, specs[i], "None")])
          /\ chain' = specs
    /\ UNCHANGED <<browser, pc, rv, exc, call_log, tick, now, wait>>

NextInit ==
    \/ WebDriverWaitExpression_init
    \/ WaitExpression_call
    \/ ExpressionPass

SpecInit == InitWait /\ [][NextInit]_vars

(* ---------------------------------------------------------------------- *)
(* WebDriverWaitExpression: builder calls given any finder                *)
(* ---------------------------------------------------------------------- *)
\* the message of the TypeError re raises for an argument that is no string
ExpectedString == <<"expected string or buffer">>

\* WebDriverWaitExpression._to_locator(expression) for any finder: the
\* _locator of an element; _locator_re.match(expression) for every other
\* value, which raises TypeError when the value is not a string
_to_locator(finder) ==
    IF finder.type = "element" THEN Returned(finder.text, <<>>, 0)
    ELSE IF finder.type = "str"
         THEN Returned(WebDriverWaitExpression_to_locator(finder.text), <<>>, 0)
    ELSE [Raised("TypeError", <<>>, 0) EXCEPT !.rv = ExpectedString]

\* locator = self._to_locator(expr) returned or raised r, then
\* self._append(self.wait_clause_factory(prefix + locator))
AppendLocated(prefix, finder, r) ==
    /\ pc = "build"
    /\ Len(Clauses(expression)) < ClauseBound
    /\ IF r.exc # "none"
       THEN /\ exc' = r.exc
            /\ rv' = r.rv
            /\ pc' = "done"
            /\ UNCHANGED <<expression, chain>>
       ELSE /\ expression' = _append(expression,
                   WebDriverWaitClause(Len(Clauses(expression)) + 1,
                                       <<prefix>> \o r.rv, "None"))
            /\ chain' = Append(chain, [call |-> "clause",
                                       n |-> Len(Clauses(expression)) + 1])
            /\ UNCHANGED <<pc, rv, exc>>
    /\ call_log' = Append(call_log, finder)
    /\ UNCHANGED <<browser, tick, now, wait>>

\* WebDriverWaitExpression.element_present(expr)
WebDriver_element_present ==
    \E finder \in Finders : AppendLocated("element:", finder, _to_locator(finder))

\* WebDriverWaitExpression.element_not_visible(expr)
WebDriver_element_not_visible ==
    \E finder \in Finders : AppendLocated("!visible:", finder, _to_locator(finder))

NextLocate ==
    \/ WebDriver_element_present
    \/ WebDriver_element_not_visible
    \/ or_

SpecLocate == InitWait /\ [][NextLocate]_vars

(* ---------------------------------------------------------------------- *)
(* Waits on the scripts of the page: ajax_* and page_*                    *)
(* ---------------------------------------------------------------------- *)
\* the states of window.jQuery on a page
JQueryStates ==
    {NoJQuery} \cup {[loaded |-> TRUE, active |-> a] : a \in 0..MaxActive}

\* the pages the script clauses are evaluated on
ScriptPages ==
    {[BlankPage EXCEPT !.flag = f, !.jquery = j] :
        f \in {"true", "undefined"}, j \in JQueryStates}

\* WebDriverWaitExpression.ajax_pending
ajax_pending ==
    \E retval \in RetvalArgs : AppendCondition("js:", ajax_pending_expr, retval)

\* WebDriverWaitExpression.ajax_complete
ajax_complete ==
    \E retval \in RetvalArgs : AppendCondition("js:", ajax_complete_expr, retval)

\* WebDriverWaitExpression.page_loading
page_loading ==
    \E retval \in RetvalArgs : AppendCondition("js:", page_loading_expr, retval)

\* the page changes while a wait is polling: the library is loaded, a
\* request starts or ends, the sentinel flag is set or the window replaced
ScriptPageChange ==
    /\ pc = "polling"
    /\ \/ \E j \in JQueryStates :
            /\ browser.page.jquery # j
            /\ browser' = [browser EXCEPT !.page.jquery = j]
       \/ browser' = [browser EXCEPT !.page.flag =
                          IF @ = "true" THEN "undefined" ELSE "true"]
    /\ UNCHANGED <<expression, pc, rv, exc, call_log, tick, now, wait, chain>>

InitScript ==
    /\ expression = AndExpression(<<>>)
    /\ browser \in {WebDriver(default_timeout, page) : page \in ScriptPages}
    /\ pc = "build"
    /\ rv = "None"
    /\ exc = "none"
    /\ call_log = <<>>
    /\ tick = NoTick
    /\ now = 0
    /\ wait = NoWait
    /\ chain = <<>>

NextScript ==
    \/ ajax_pending
    \/ ajax_complete
    \/ page_ready
    \/ page_loading
    \/ WaitExpression_call
    \/ ExpressionPass
    \/ ScriptPageChange

SpecScript == InitScript /\ [][NextScript]_vars

(* ---------------------------------------------------------------------- *)
(* WebDriverRemote: sessions and the page-load timeout                    *)
(* ---------------------------------------------------------------------- *)
\* the timeouts given to WebDriverRemote: None, or a number of milliseconds
RemoteTimeouts == {NoneArg} \cup {k * Period : k \in 0..MaxRemoteTimeout}

\* how the server answers one request: it serves it, it answers with an
\* error, or the process is interrupted while the request is made
Outcomes == {"ok", "error", "interrupt"}

\* WebDriverRemote.__init__; _session_id None is 0
WebDriverRemote(default) ==
    [kind |-> "remote", _session_id |-> 0,
     _default_timeout |-> default, _current_timeout |-> NoneArg]

\* the server: its active session (0: none) and the page-load timeout last
\* sent to that session (NoneArg: none sent)
Server(session, page_load) ==
    [kind |-> "server", session |-> session, page_load |-> page_load]

\* the client, the server, the exception raised and the requests made
World(r, s) == [r |-> r, s |-> s, exc |-> "none", log |-> <<>>]

\* the effect of a served request on the server
Served(s, request) ==
    CASE request.command = "session" -> Server(request.arg, NoneArg)
      [] request.command = "timeouts" -> [s EXCEPT !.page_load = request.arg]
      [] request.command = "delete" -> Server(0, NoneArg)
      [] OTHER -> s

\* WebDriverRemote._raw_call on the server of the sessions: a response that is no success raises
\* RuntimeError (or the error of the table), an interrupt propagates
SessionRequest(w, request, outcome) ==
    CASE outcome = "ok" ->
           [w EXCEPT !.s = Served(@, request), !.log = Append(@, request)]
      [] outcome = "error" ->
           [w EXCEPT !.exc = "RuntimeError", !.log = Append(@, request)]
      [] OTHER -> [w EXCEPT !.exc = "KeyboardInterrupt"]

\* WebDriverRemote.__call__
WebDriverRemote_call(w, request, outcome) ==
    IF w.r._session_id = 0
    THEN [w EXCEPT !.exc = "Exception"]
    ELSE SessionRequest(w, request, outcome)

\* WebDriverRemote.set_timeout
set_timeout(w, value, outcome) ==
    IF value = NoneArg THEN w
    ELSE IF value # w.r._current_timeout
    THEN LET c == WebDriverRemote_call(w, [command |-> "timeouts", arg |-> value],
                                       outcome)
         IN  IF c.exc # "none" THEN c ELSE [c EXCEPT !.r._current_timeout = value]
    ELSE [w EXCEPT !.r._current_timeout = value]

\* WebDriverRemote.get_new_browser_session
get_new_browser_session(w, id, outcomes) ==
    LET a == SessionRequest(w, [command |-> "session", arg |-> id], outcomes[1])
    IN  IF a.exc # "none" THEN a
        ELSE set_timeout([a EXCEPT !.r._session_id = id], a.r._default_timeout,
                         outcomes[2])

\* WebDriverRemote.test_complete
test_complete(w, outcomes) ==
    LET a == WebDriverRemote_call(w, [command |-> "delete", arg |-> NoneArg],
                                  outcomes[1])
    IN  IF a.exc # "none" THEN a ELSE [a EXCEPT !.r._session_id = 0]

\* the body of the with statement of WebDriverRemote.open, then the except
\* and else branches of _scoped_timeout
ScopedBody(a, current_timeout, outcomes) ==
    LET b == WebDriverRemote_call(a, [command |-> "url", arg |-> NoneArg], outcomes[2])
    IN  IF b.exc = "KeyboardInterrupt" THEN b
        ELSE IF b.exc # "none"
        THEN LET c == set_timeout([b EXCEPT !.exc = "none"], current_timeout,
                                  outcomes[3])
             IN  IF c.exc = "KeyboardInterrupt" THEN c ELSE [c EXCEPT !.exc = b.exc]
        ELSE set_timeout(b, current_timeout, outcomes[3])

\* WebDriverRemote.open under WebDriverRemote._scoped_timeout
WebDriverRemote_open(w, timeout, outcomes) ==
    IF ~(timeout # NoneArg /\ timeout # w.r._current_timeout)
    THEN WebDriverRemote_call(w, [command |-> "url", arg |-> NoneArg], outcomes[2])
    ELSE LET a == set_timeout(w, timeout, outcomes[1])
         IN  IF a.exc # "none" THEN a
             ELSE ScopedBody(a, w.r._current_timeout, outcomes)

\* the answers of the server to the requests of one operation
OutcomeSeqs == [1..3 -> Outcomes]

\* the state after an operation: chain keeps the call, its argument and the
\* timeout the client held before it
AfterCall(w, call, arg) ==
    /\ browser' = w.r
    /\ wait' = w.s
    /\ exc' = w.exc
    /\ call_log' = w.log
    /\ chain' = <<[call |-> call, arg |-> arg, prior |-> browser._current_timeout]>>
    /\ UNCHANGED <<expression, pc, rv, tick>>

GetNewBrowserSession ==
    /\ pc = "session"
    /\ now < MaxSessions
    /\ now' = now + 1
    /\ \E outcomes \in OutcomeSeqs :
          AfterCall(get_new_browser_session(World(browser, wait), now + 1, outcomes),
                    "get_new_browser_session", NoneArg)

TestComplete ==
    /\ pc = "session"
    /\ UNCHANGED now
    /\ \E outcomes \in OutcomeSeqs :
          AfterCall(test_complete(World(browser, wait), outcomes),
                    "test_complete", NoneArg)

SetTimeout ==
    /\ pc = "session"
    /\ UNCHANGED now
    /\ \E value \in RemoteTimeouts, outcomes \in OutcomeSeqs :
          AfterCall(set_timeout(World(browser, wait), value, outcomes[1]),
                    "set_timeout", value)

Open ==
    /\ pc = "session"
    /\ UNCHANGED now
    /\ \E timeout \in RemoteTimeouts, outcomes \in OutcomeSeqs :
          AfterCall(WebDriverRemote_open(World(browser, wait), timeout, outcomes),
                    "open", timeout)

InitSession ==
    /\ expression = AndExpression(<<>>)
    /\ browser \in {WebDriverRemote(d) : d \in RemoteTimeouts}
    /\ pc = "session"
    /\ rv = "None"
    /\ exc = "none"
    /\ call_log = <<>>
    /\ tick = NoTick
    /\ now = 0
    /\ wait = Server(0, NoneArg)
    /\ chain = <<>>

NextSession ==
    \/ GetNewBrowserSession
    \/ TestComplete
    \/ SetTimeout
    \/ Open

SpecSession == InitSession /\ [][NextSession]_vars

(* ---------------------------------------------------------------------- *)
(* event_sender: an action sent to an element                             *)
(* ---------------------------------------------------------------------- *)
\* the wait_for argument of a handler: 'page' (the default of click and
\* submit) or None
HandlerWaits == {"page", "None"}

\* whether the server serves a request of the handler or answers with an error
Answers == {"ok", "error"}

\* the handler leaves with the error of a request
HandlerRaises ==
    /\ pc' = "raised"
    /\ exc' = "RuntimeError"
    /\ UNCHANGED <<expression, browser, rv, call_log, tick, now, wait, chain>>

\* handler(self, wait_for, timeout), up to wd_id(): with wait_for == 'page'
\* it runs 'window.__alfajor_webdriver_page__ = true' on the page
EventSetFlag ==
    /\ pc = "handler"
    /\ \E wait_for \in HandlerWaits, timeout \in TimeoutArgs, answer \in Answers :
         IF wait_for = "page" /\ answer = "error" THEN HandlerRaises
         ELSE /\ chain' = <<[call |-> "click", wait_for |-> wait_for,
                             timeout |-> timeout]>>
              /\ browser' = IF wait_for = "page"
                            THEN [browser EXCEPT !.page.flag = "true"] ELSE browser
              /\ call_log' = IF wait_for = "page" THEN <<"flag">> ELSE <<>>
              /\ pc' = "flagged"
              /\ UNCHANGED <<expression, rv, exc, tick, now, wait>>

\* element = self.wd_id(): POST element
EventLocate ==
    /\ pc = "flagged"
    /\ \E answer \in Answers :
         IF answer = "error" THEN HandlerRaises
         ELSE /\ call_log' = Append(call_log, "element")
              /\ pc' = "located"
              /\ UNCHANGED <<expression, browser, rv, exc, tick, now, wait, chain>>

\* webdriver('POST', 'element/%s/%s' % (element, webdriver_name))
EventSend ==
    /\ pc = "located"
    /\ \E answer \in Answers :
         IF answer = "error" THEN HandlerRaises
         ELSE /\ call_log' = Append(call_log, "action")
              /\ pc' = "sent"
              /\ UNCHANGED <<expression, browser, rv, exc, tick, now, wait, chain>>

\* the action makes the browser load a page: the new window has no flag
PageLoad ==
    /\ pc \in {"sent", "polling"}
    /\ browser.page.flag = "true"
    /\ browser' = [browser EXCEPT !.page.flag = "undefined"]
    /\ UNCHANGED <<expression, pc, rv, exc, call_log, tick, now, wait, chain>>

\* if wait_for: self.browser.wait_for(wait_for, timeout), up to the first
\* pass of the expression: condition = self.wait_expression().page_ready()
EventWaitFor ==
    /\ pc = "sent"
    /\ chain[1].wait_for = "page"
    /\ expression' = _append(AndExpression(<<>>),
                             WebDriverWaitClause(1, <<"js:">> \o page_ready_expr, "None"))
    /\ wait' = [kind |-> "expression",
                timeout |-> IF chain[1].timeout = NoneArg THEN browser.current_timeout
                            ELSE chain[1].timeout,
                start_time |-> now]
    /\ pc' = "polling"
    /\ UNCHANGED <<browser, rv, exc, call_log, tick, now, chain>>

\* a sync_document that does not wait for the end of wait_for
SyncReadyEarly ==
    \/ pc \in {"polling", "done"} /\ exc = "none"
    \/ pc = "sent" /\ chain[1].wait_for = "None"

\* the handler is at self.browser.sync_document(): wait_for has returned,
\* or there was none to call
SyncReady ==
    \/ pc = "done" /\ exc = "none"
    \/ pc = "sent" /\ chain[1].wait_for = "None"

\* WebDriver.sync_document(): wait_for(None) returns at once, then
\* self.response = self.webdriver('GET', 'source')['value']
sync_document ==
    /\ SyncReady
    /\ \E answer \in Answers :
         IF answer = "error" THEN HandlerRaises
         ELSE /\ call_log' = Append(call_log, "source")
              /\ pc' = "synced"
              /\ UNCHANGED <<expression, browser, rv, exc, tick, now, wait, chain>>

InitEvent ==
    /\ expression = AndExpression(<<>>)
    /\ browser \in {WebDriver(default_timeout, page) :
                      page \in {p \in Pages : p.el["#id2"] = "absent"}}
    /\ pc = "handler"
    /\ rv = "None"
    /\ exc = "none"
    /\ call_log = <<>>
    /\ tick = NoTick
    /\ now = 0
    /\ wait = NoWait
    /\ chain = <<>>

NextEvent ==
    \/ EventSetFlag
    \/ EventLocate
    \/ EventSend
    \/ PageLoad
    \/ EventWaitFor
    \/ ExpressionPass
    \/ sync_document

SpecEvent == InitEvent /\ [][NextEvent]_vars

(* ---------------------------------------------------------------------- *)
(* WebDriver.wait_for called with an expression object                    *)
(* ---------------------------------------------------------------------- *)
\* the classes of the expression given to WebDriver.wait_for
WaitExpressionClasses ==
    {"WaitExpression", "SeleniumWaitExpression", "WebDriverWaitExpression"}

\* the classes that inherit WaitExpression.__call__
InheritsCall(class) == class \in {"WaitExpression", "SeleniumWaitExpression"}

\* browser.wait_for(expr, timeout): wait counts the entries into wait_for
\* and the calls of the expression
WebDriver_wait_for_expression ==
    /\ pc = "build"
    /\ \E class \in WaitExpressionClasses, timeout \in TimeoutArgs :
         wait' = [kind |-> "expression", class |-> class,
                  timeout |-> IF timeout = NoneArg THEN browser.current_timeout
                              ELSE timeout,
                  start_time |-> now, entries |-> 1, calls |-> 0]
    /\ pc' = "dispatch"
    /\ UNCHANGED <<expression, browser, rv, exc, call_log, tick, now, chain>>

\* if isinstance(condition, WaitExpression): return condition(self, timeout):
\* WebDriverWaitExpression.__call__ starts its loop, WaitExpression.__call__
\* is `return browser.wait_for(self, timeout=timeout)`
ExpressionInvoke ==
    /\ pc = "dispatch"
    /\ wait' = [wait EXCEPT !.calls = @ + 1]
    /\ pc' = IF InheritsCall(wait.class) THEN "reenter" ELSE "polling"
    /\ UNCHANGED <<expression, browser, rv, exc, call_log, tick, now, chain>>

\* browser.wait_for(self, timeout=timeout) entered from WaitExpression.__call__;
\* at the recursion limit the interpreter raises RuntimeError, which
\* wait_for rewraps: except RuntimeError, detail: raise AssertionError(...)
WaitForReenter ==
    /\ pc = "reenter"
    /\ IF wait.entries >= RecursionLimit
       THEN /\ pc' = "done"
            /\ exc' = RuntimeErrorToAssertion("RuntimeError")
            /\ wait' = wait
       ELSE /\ pc' = "dispatch"
            /\ exc' = exc
            /\ wait' = [wait EXCEPT !.entries = @ + 1]
    /\ UNCHANGED <<expression, browser, rv, call_log, tick, now, chain>>

NextDispatch ==
    \/ element_present
    \/ element_not_present
    \/ WebDriver_wait_for_expression
    \/ ExpressionInvoke
    \/ WaitForReenter
    \/ ExpressionPass

SpecDispatch == InitCancel /\ [][NextDispatch]_vars

(* ---------------------------------------------------------------------- *)
(* _fill_form_async: filling a form over several passes                   *)
(* ---------------------------------------------------------------------- *)
\* the names of the fields of the form
FieldNames == 1..MaxFields

\* the key/value pairs given to fill a form, by name: each name once
FieldValues ==
    {values \in UNION {[1..n -> FieldNames] : n \in 0..MaxFields} :
        \A i, j \in 1..Len(values) : i < j => values[i] < values[j]}

\* the form: the fields that can be set now (the others raise ValueError,
\* e.g. a select whose options JavaScript has not yet set) and those set
Form(ready, set) == [kind |-> "form", ready |-> ready, set |-> set]

\* _fill_fields(fields, values): the pairs that raised ValueError
_fill_fields(fields, values) == SelectSeq(values, LAMBDA name : name \notin fields.ready)

\* the fields _fill_fields has set
FieldsSet(fields, values) ==
    {values[i] : i \in {j \in 1..Len(values) : values[j] \in fields.ready}}

\* a loop without the test of the number of unset fields
NothingSetNever(values, unset_count) == FALSE

\* if len(values) == unset_count: nothing was able to be set
NothingSet(values, unset_count) == Len(values) = unset_count

\* what one pass that goes on does after _fill_fields
AfterFill(wait_for) ==
    <<"fill">> \o (IF wait_for # "None" THEN <<"wait_for">> ELSE <<>>)
        \o <<"sync_document">>

\* one pass of `while values:` whose _fill_fields left `unfilled`; wait_for
\* returns, or raises AssertionError
FillPassed(unfilled, waited) ==
    /\ now' = now + 1
    /\ chain' = unfilled
    /\ browser' = [browser EXCEPT !.set = @ \cup FieldsSet(browser, chain)]
    /\ IF NothingSet(unfilled, wait.unset_count)
       THEN /\ pc' = "raised"
            /\ exc' = "ValueError"
            /\ rv' = unfilled
            /\ call_log' = Append(call_log, "fill")
            /\ wait' = wait
       ELSE IF wait.wait_for # "None" /\ waited # "none"
       THEN /\ pc' = "raised"
            /\ exc' = waited
            /\ rv' = rv
            /\ call_log' = call_log \o <<"fill", "wait_for">>
            /\ wait' = wait
       ELSE /\ pc' = "fill"
            /\ exc' = exc
            /\ rv' = rv
            /\ call_log' = call_log \o AfterFill(wait.wait_for)
            /\ wait' = [wait EXCEPT !.unset_count = Len(unfilled)]
    /\ UNCHANGED <<expression, tick>>

\* one pass of `while values:` in _fill_form_async
FillPass ==
    /\ pc = "fill"
    /\ chain # <<>>
    /\ \E waited \in {"none", "AssertionError"} :
          FillPassed(_fill_fields(browser, chain), waited)

\* `while values:` with no value left: _fill_form_async returns
FillReturn ==
    /\ pc = "fill"
    /\ chain = <<>>
    /\ pc' = "done"
    /\ UNCHANGED <<expression, browser, rv, exc, call_log, tick, now, wait, chain>>

\* the scripts of the page make a field ready to be set, or not ready
FieldsChange ==
    /\ pc = "fill"
    /\ \E ready \in SUBSET FieldNames :
          /\ ready # browser.ready
          /\ browser' = [browser EXCEPT !.ready = ready]
    /\ UNCHANGED <<expression, pc, rv, exc, call_log, tick, now, wait, chain>>

\* _fill_form_async(form, values, wait_for) is called
InitFill ==
    /\ expression = AndExpression(<<>>)
    /\ browser \in {Form(ready, {}) : ready \in SUBSET FieldNames}
    /\ pc = "fill"
    /\ rv = "None"
    /\ exc = "none"
    /\ call_log = <<>>
    /\ tick = NoTick
    /\ now = 0
    /\ chain \in FieldValues
    /\ wait \in {[kind |-> "fill", wait_for |-> w, unset_count |-> Len(chain),
                  given |-> chain] : w \in {"None", "page"}}

NextFill ==
    \/ FillPass
    \/ FillReturn
    \/ FieldsChange

SpecFill == InitFill /\ [][NextFill]_vars

\* the loop goes on by itself and the call returns once the loop has ended
SpecFillLive == SpecFill /\ WF_vars(FillPass) /\ WF_vars(FillReturn)

(* ---------------------------------------------------------------------- *)
(* Properties of the boolean expressions and of the builder               *)
(* ---------------------------------------------------------------------- *)
RECURSIVE Holds(_)
\* the truth value of a tree of canary / MockBrowser clauses, by its meaning
Holds(node) ==
    CASE node.op = "CL"  -> PyTruthy(node.retval)
      [] node.op = "AND" -> \A i \in 1..Len(node.kids) : Holds(node.kids[i])
      [] node.op = "OR"  -> \E i \in 1..Len(node.kids) : Holds(node.kids[i])

\* the first child whose truth value is v, the last child when there is none
StopIndex(kids, v) ==
    IF \E i \in 1..Len(kids) : Holds(kids[i]) = v
    THEN CHOOSE i \in 1..Len(kids) :
            Holds(kids[i]) = v /\ \A j \in 1..(i - 1) : Holds(kids[j]) # v
    ELSE Len(kids)

RECURSIVE ExpectedLog(_)
RECURSIVE ExpectedLogOfKids(_, _, _)
\* the clauses a depth-first, left-to-right, short-circuit evaluation calls
ExpectedLog(node) ==
    IF node.op = "CL" THEN <<node>>
    ELSE ExpectedLogOfKids(node.kids, 1, StopIndex(node.kids, node.op = "OR"))

ExpectedLogOfKids(kids, i, last) ==
    IF i > last THEN <<>>
    ELSE ExpectedLog(kids[i]) \o ExpectedLogOfKids(kids, i + 1, last)

Called == {call_log[i].n : i \in 1..Len(call_log)}

LeftToRight == \A i, j \in 1..Len(call_log) : i < j => call_log[i].n < call_log[j].n

\* C1: an AndExpression calls its children left to right up to and including
\* the first false one and no later one, and is true iff every child is true.
C1_AndShortCircuit ==
    (pc = "done" /\ expression.op = "AND") =>
        LET kids == expression.kids
            last == StopIndex(kids, FALSE)
        IN /\ rv = PyBool(\A i \in 1..Len(kids) : Holds(kids[i]))
           /\ \A i \in 1..Len(kids) : (i <= last) <=> (Clauses(kids[i])[1].n \in Called)
           /\ \A i \in 1..Len(kids) :
                  i > last => \A c \in 1..Len(Clauses(kids[i])) :
                                  Clauses(kids[i])[c].n \notin Called
           /\ LeftToRight
           /\ (\A i \in 1..Len(kids) : kids[i].op = "CL")
                  => call_log = SubSeq(kids, 1, last)

C1_Witness ==
    /\ pc = "done"
    /\ expression = AndExpression(<<CanaryClause(10, "True"), CanaryClause(20, "False"),
                                    CanaryClause(30, "False")>>)
    /\ rv = "False"
    /\ call_log = <<CanaryClause(10, "True"), CanaryClause(20, "False")>>

\* C2: an OrExpression calls its children left to right up to and including
\* the first true one and no later one, and is true iff some child is true.
C2_OrShortCircuit ==
    (pc = "done" /\ expression.op = "OR") =>
        LET kids == expression.kids
            last == StopIndex(kids, TRUE)
        IN /\ rv = PyBool(\E i \in 1..Len(kids) : Holds(kids[i]))
           /\ \A i \in 1..Len(kids) : (i <= last) <=> (Clauses(kids[i])[1].n \in Called)
           /\ \A i \in 1..Len(kids) :
                  i > last => \A c \in 1..Len(Clauses(kids[i])) :
                                  Clauses(kids[i])[c].n \notin Called
           /\ LeftToRight
           /\ (\A i \in 1..Len(kids) : kids[i].op = "CL")
                  => call_log = SubSeq(kids, 1, last)

C2_Witness ==
    /\ pc = "done"
    /\ expression = OrExpression(<<CanaryClause(10, "True"), CanaryClause(20, "False")>>)
    /\ rv = "True"
    /\ call_log = <<CanaryClause(10, "True")>>

\* C6: a nested tree is evaluated depth first, left to right, short-circuiting
\* at each level on its own, each clause called at most once; its value is
\* the truth value of the tree.
C6_NestedDepthFirst ==
    pc = "done" =>
        /\ call_log = ExpectedLog(expression)
        /\ rv = PyBool(Holds(expression))
        /\ Cardinality(Called) = Len(call_log)

C6_Witness ==
    /\ pc = "done"
    /\ expression = AndExpression(<<CanaryClause(10, "True"), CanaryClause(20, "True"),
                        OrExpression(<<CanaryClause(31, "False"), CanaryClause(32, "True")>>)>>)
    /\ rv = "True"
    /\ call_log = <<CanaryClause(10, "True"), CanaryClause(20, "True"),
                    CanaryClause(31, "False"), CanaryClause(32, "True")>>

\* the k-th clause appended by the builder
ClauseN(k) == CHOOSE i \in 1..Len(Clauses(expression)) : Clauses(expression)[i].n = k

H(k) == Holds(Clauses(expression)[ClauseN(k)])

IsClauseCall(i) == i \in 1..Len(chain) /\ chain[i].call = "clause"

IsOrCall(i) == i \in 1..Len(chain) /\ chain[i].call = "or_"

\* the chain c1 ... ck . or_() . c(k+1), k >= 1
SingleOrChain ==
    /\ Len(chain) >= 3
    /\ IsOrCall(Len(chain) - 1)
    /\ \A i \in 1..Len(chain) : i # Len(chain) - 1 => IsClauseCall(i)

\* C3 as stated: in c1 ... ck . or_() . c(k+1) only ck and c(k+1) are OR-ed,
\* the result is c1 AND ... AND c(k-1) AND (ck OR c(k+1)).
C3_OrJoinsAdjacentPair ==
    (pc = "done" /\ SingleOrChain) =>
        LET k == Len(chain) - 2 IN
        rv = PyBool((\A i \in 1..(k - 1) : H(i)) /\ (H(k) \/ H(k + 1)))

\* C3 amended: in c1 ... ck . or_() . c(k+1) the AND of all the clauses before
\* or_() is OR-ed with c(k+1): the result is (c1 AND ... AND ck) OR c(k+1),
\* c(k+1) is called iff that AND is false, and for element_present(A, false)
\* .or_().element_present(B, true) the clauses called are [A, B] and the
\* expression succeeds.
C3_OrJoinsExpressionSoFar ==
    (pc = "done" /\ SingleOrChain) =>
        LET k == Len(chain) - 2 IN
        /\ rv = PyBool((\A i \in 1..k : H(i)) \/ H(k + 1))
        /\ (k + 1 \in Called) <=> ~(\A i \in 1..k : H(i))
        /\ LeftToRight
        /\ (k = 1 /\ ~H(1) /\ H(2)) => (rv = "True" /\ Called = {1, 2})

C3_Witness ==
    /\ pc = "done"
    /\ SingleOrChain
    /\ Len(chain) = 4
    /\ ~H(1) /\ ~H(2) /\ H(3)
    /\ rv = "True"
    /\ Called = {1, 3}

RECURSIVE Fold(_, _, _)
\* ((c1 op1 c2) op2 c3) ... over the builder calls from the i-th on; an
\* or_() call makes the operator of the next clause OR, the default is AND
Fold(i, acc, pending_or) ==
    IF i > Len(chain) THEN acc
    ELSE IF chain[i].call = "or_" THEN Fold(i + 1, acc, TRUE)
    ELSE Fold(i + 1, IF pending_or THEN acc \/ H(chain[i].n) ELSE acc /\ H(chain[i].n), FALSE)

\* C4: or_() ORs the whole expression built so far with the next clause: the
\* built tree evaluates as the left-associative fold of the chain, and
\* A.B.or_().C with A, B, C false calls exactly [A, C] and is false.
C4_LeftAssociativeFold ==
    pc = "done" =>
        /\ rv = PyBool(Fold(1, TRUE, FALSE))
        /\ (Len(chain) = 4 /\ SingleOrChain /\ ~H(1) /\ ~H(2) /\ ~H(3))
              => (rv = "False" /\ Len(call_log) = 2 /\ call_log[1].n = 1 /\ call_log[2].n = 3)

C4_Witness ==
    /\ pc = "done"
    /\ Len(chain) = 4 /\ SingleOrChain
    /\ ~H(1) /\ ~H(2) /\ ~H(3)
    /\ rv = "False"
    /\ Len(call_log) = 2

\* the chain A . or_() . B . C ..., at least one clause after the OR pair
ClauseAfterOrPair ==
    /\ Len(chain) >= 4
    /\ IsOrCall(2)
    /\ \A i \in 1..Len(chain) : i # 2 => IsClauseCall(i)

\* C5: a clause appended after a completed OR pair is AND-ed against the whole
\* (A OR B) group: A.or_().B.C is (A OR B) AND C, C is called whenever
\* (A OR B) is true, B is skipped when A is true.
C5_AndAfterOrPair ==
    (pc = "done" /\ ClauseAfterOrPair) =>
        /\ rv = PyBool((H(1) \/ H(2)) /\ \A i \in 3..(Len(chain) - 1) : H(i))
        /\ (3 \in Called) <=> (H(1) \/ H(2))
        /\ (2 \in Called) <=> ~H(1)
        /\ 1 \in Called
        /\ LeftToRight

C5_Witness ==
    /\ pc = "done"
    /\ ClauseAfterOrPair
    /\ H(1) /\ H(2) /\ H(3)
    /\ rv = "True"
    /\ Called = {1, 3}

(* ---------------------------------------------------------------------- *)
(* Properties of the waits on a WebDriver                                 *)
(* ---------------------------------------------------------------------- *)
\* the expression under wait has been evaluated at least once
ExpressionTicked == wait.kind = "expression" /\ tick # NoTick

\* C7: evaluating a clause against a WebDriver whose page does not satisfy
\* its condition returns false to the enclosing AND/OR node instead of
\* raising: with no remote call failing, an evaluation of the expression
\* ends with a value, never with an exception.
C7_FalseClauseReturnsFalse ==
    (ExpressionTicked /\ ~tick.faulted) => tick.exc = "none"

\* the errors the specification calls transient
TransientErrors == {"NoSuchElement", "ElementNotVisible", "StaleElementReference"}

\* C8: a transient error (element not found, element not visible, stale
\* element reference) raised by a remote call during a polling wait never
\* reaches the caller of the wait.
C8_TransientErrorsSwallowed ==
    pc = "done" => exc \notin TransientErrors

\* the wait returned success to its caller
Succeeded == pc = "done" /\ exc = "none" /\ PyTruthy(rv)

\* the latest evaluation was true
TickTrue == tick.exc = "none" /\ PyTruthy(tick.rv)

\* C9: a wait returns success on the earliest tick whose evaluation is true
\* (a wait still polling has seen no true evaluation), without a sleep in or
\* after that tick, and reports success only when the evaluation of its
\* final tick was true.
C9_SuccessOnFirstTrueTick ==
    /\ (pc \in {"polling", "exec"} /\ tick # NoTick) => ~TickTrue
    /\ Succeeded => (TickTrue /\ tick.slept = 0)

\* success after more time than one evaluation takes: an earlier tick failed
C9_Witness ==
    /\ Succeeded
    /\ TickTrue
    /\ tick.slept = 0
    /\ wait.kind = "string"
    /\ now - wait.start_time > MaxLatency * Period

\* a WebDriverWaitExpression left its loop with the budget used up
TimedOutExpr ==
    /\ pc = "done"
    /\ wait.kind = "expression"
    /\ tick.exc \in {"none", "AssertionError"}
    /\ ~PyTruthy(PassValue(tick))

\* _exec_with_timeout left its loop after the sleep: the budget is used up
TimedOutString ==
    /\ pc = "done"
    /\ wait.kind = "string"
    /\ tick.slept > 0

Ceil(a, b) == (a + b - 1) \div b

\* the wait on a condition that stayed false gave up
GaveUp == pc = "done" /\ wait.kind = "string" /\ exc = "AssertionError"

\* the calls of operation() the wait made
Attempts == Len(call_log)

\* C11 as stated: for any (timeout, frequency) and a predicate that stays
\* false, the driver makes at least ceil(timeout / frequency) attempts before
\* it gives up.
C11_AttemptsAtLeastCeil ==
    GaveUp => Attempts >= Ceil(wait.timeout, wait.frequency)

\* every evaluation of the wait took no time
Instantaneous == now - wait.start_time = Attempts * wait.frequency

\* C11, amended: the budget is wall-clock time, so the driver makes at least
\* ceil(timeout / (frequency + L)) attempts, L the longest time one
\* evaluation takes, and at least ceil(timeout / frequency) attempts (in fact
\* floor(timeout / frequency) + 1) when the evaluations take no time.
C11_AttemptsWithinWallClock ==
    GaveUp =>
        /\ Attempts >= 1
        /\ Attempts >= Ceil(wait.timeout, wait.frequency + MaxLatency * Period)
        /\ Instantaneous => Attempts = (wait.timeout \div wait.frequency) + 1

C11_Witness ==
    /\ GaveUp
    /\ Instantaneous
    /\ wait.timeout = 3 * Period
    /\ wait.frequency = Period
    /\ Attempts = 4

(* ---------------------------------------------------------------------- *)
(* Properties of the error paths of a wait                                *)
(* ---------------------------------------------------------------------- *)
\* C12: a KeyboardInterrupt / SystemExit raised at any point during a wait
\* propagates to the caller immediately: the tick during which it is
\* delivered ends the wait with that exception, it is never swallowed or
\* turned into "not yet satisfied", and no further tick follows.
C12_CancellationPropagates ==
    tick.interrupted => (pc = "done" /\ exc = "KeyboardInterrupt")

\* a remote call of the latest tick was answered with a response that maps to
\* no known error kind: _raw_call raised the generic RuntimeError (a timeout
\* of the polled operation is raised only after a sleep)
RemoteCallFailed ==
    /\ tick.faulted
    /\ ~tick.interrupted
    /\ tick.slept = 0
    /\ tick.exc \in {"RuntimeError", "AssertionError"}

\* C13: a remote call that fails for a reason other than predicate-false
\* during a wait is surfaced to the caller on the tick where it occurs and is
\* not retried on later ticks.
C13_FailedCallSurfaced ==
    RemoteCallFailed => (pc = "done" /\ exc # "none")

\* the protocol errors the servers of the model answer with: wire status ->
\* the remote call that is answered
ProtocolFaultCall == (17 :> "execute") @@ (32 :> "element")

\* the first remote call of the latest tick was answered with a protocol error
ProtocolFaultHit ==
    /\ tick.status \in DOMAIN ProtocolFaultCall
    /\ \/ /\ wait.kind = "string"
          /\ FirstCall(wait.condition) = ProtocolFaultCall[tick.status]
       \/ /\ wait.kind = "expression"
          /\ tick.log # <<>>
          /\ FirstCall(tick.log[1].condition) = ProtocolFaultCall[tick.status]

\* C14: a protocol error (invalid selector, JavaScript error, ...) raised by
\* a remote call during a wait reaches the caller as the typed error of its
\* kind: the wait ends on that tick with the exception class the table names
\* for the wire status, not swallowed and not rewrapped.
C14_ProtocolErrorsTyped ==
    ProtocolFaultHit =>
        /\ pc = "done"
        /\ tick.exc = jsonwire_errors[tick.status]
        /\ exc = jsonwire_errors[tick.status]
        /\ exc \notin {"RuntimeError", "AssertionError"}

C14_Witness ==
    /\ ProtocolFaultHit
    /\ wait.kind = "expression"
    /\ Len(Clauses(expression)) = 2
    /\ pc = "done"
    /\ exc = "InvalidSelector"
    /\ now > 0

(* ---------------------------------------------------------------------- *)
(* Properties of the error classification                                 *)
(* ---------------------------------------------------------------------- *)
\* _raw_call raised for a response whose body is JSON
ClassifiedJson == pc = "done" /\ wait.kind = "response" /\ wait.body = "json"

\* C15 as stated: code 7 raises NoSuchElement, code 21 Timeout, every other
\* code in the table the error type its entry names, a code outside the
\* table the generic RuntimeError.
C15_EveryTableCodeTyped ==
    ClassifiedJson =>
        exc = IF wait.status \in DOMAIN jsonwire_errors
              THEN jsonwire_errors[wait.status] ELSE "RuntimeError"

\* the generic error carries the response text
GenericError == exc = "RuntimeError" /\ rv = <<"Invalid Request: ", "response.text">>

\* C15, amended: classification is a pure lookup on the wire status of a
\* JSON body: 7 raises NoSuchElement, 21 Timeout, every other nonzero code of
\* the table the type its entry names; code 0 ('Success', for which there is
\* no error type), a code outside the table and an unparseable body raise
\* the generic RuntimeError carrying the response text.
C15_ClassificationLookup ==
    /\ ClassifiedJson =>
         /\ wait.status = 7 => exc = "NoSuchElement"
         /\ wait.status = 21 => exc = "Timeout"
         /\ wait.status \in DOMAIN jsonwire_errors \ {0}
               => exc = jsonwire_errors[wait.status]
         /\ wait.status \notin DOMAIN jsonwire_errors \ {0} => GenericError
    /\ (pc = "done" /\ wait.kind = "response" /\ wait.body = "text") => GenericError

C15_Witness ==
    /\ ClassifiedJson
    /\ wait.status = 21
    /\ exc = "Timeout"
    /\ rv = <<"detail", 21>>

(* ---------------------------------------------------------------------- *)
(* Properties of the compiled script                                      *)
(* ---------------------------------------------------------------------- *)
\* the recorded items without the last one
Front(items) == SubSeq(items, 1, Len(items) - 1)

\* the last builder call was or_(): no clause follows it
TrailingOr == expression # <<>> /\ expression[Len(expression)] = OR

\* C16: or_() called with no subsequent clause is a no-op: the expression
\* renders to the script it would render to had that or_() not been called.
C16_TrailingOrNoOp ==
    (pc = "done" /\ exc = "none" /\ TrailingOr) =>
        rv = Selenium_unicode(Front(expression))

\* a token sequence without the tokens in `drop`
Without(text, drop) == SelectSeq(text, LAMBDA tok : tok \notin drop)

\* what position i of the recorded items contributes to the script: '||' for
\* a sentinel; for a fragment its text, after '&&' when the item before it
\* is a fragment too
Piece(items, i) ==
    IF items[i] = OR THEN <<"||">>
    ELSE (IF i > 1 /\ items[i - 1] # OR THEN <<"&&">> ELSE <<>>)
            \o Without(items[i].js, {NL})

RECURSIVE Pieces(_, _)
Pieces(items, i) ==
    IF i > Len(items) THEN <<>> ELSE Piece(items, i) \o Pieces(items, i + 1)

\* C17: the rendered script is the recorded fragments in order, with '&&'
\* between every two consecutive fragments and '||' where an OR sentinel
\* sits, and nothing else (white space aside: the parts are joined by a
\* space and the line breaks of the fragments become spaces).
C17_RenderedInOrder ==
    (pc = "done" /\ exc = "none") =>
        /\ Without(rv, {" "}) = Pieces(expression, 1)
        /\ NL \notin {rv[i] : i \in 1..Len(rv)}

C17_Witness ==
    /\ pc = "done"
    /\ exc = "none"
    /\ Len(expression) = 3
    /\ expression[1] # OR
    /\ expression[2] = OR
    /\ expression[3] # OR
    /\ "||" \in {rv[i] : i \in 1..Len(rv)}
    /\ "&&" \notin {rv[i] : i \in 1..Len(rv)}

(* ---------------------------------------------------------------------- *)
(* Properties of the script clauses                                       *)
(* ---------------------------------------------------------------------- *)
\* the wait on the expression of the single clause 'js:' + js has ended, no
\* remote call of its last tick having been answered with an injected fault
WaitedScript(js) ==
    /\ pc = "done"
    /\ wait.kind = "expression"
    /\ ~tick.faulted
    /\ Len(chain) = 1
    /\ Clauses(expression)[1].condition = <<"js:">> \o js

\* the wait was satisfied
Satisfied == exc = "none" /\ rv = "True"

\* C18: with window.jQuery undefined an ajax_complete clause is vacuously
\* satisfied and an ajax_pending clause is not; with it defined
\* ajax_complete holds iff the count of active requests is zero and
\* ajax_pending iff it is not.
C18_AjaxToleratesMissingLibrary ==
    /\ WaitedScript(ajax_complete_expr) =>
         (Satisfied <=> (~browser.page.jquery.loaded \/ browser.page.jquery.active = 0))
    /\ WaitedScript(ajax_pending_expr) =>
         (Satisfied <=> (browser.page.jquery.loaded /\ browser.page.jquery.active # 0))

\* C19 as stated: page_loading is true iff the sentinel flag is absent from
\* the window, page_ready iff it is present.
C19_LoadingAbsentReadyPresent ==
    /\ WaitedScript(page_loading_expr) => (Satisfied <=> browser.page.flag = "undefined")
    /\ WaitedScript(page_ready_expr) => (Satisfied <=> browser.page.flag = "true")

\* C19, amended: the flag is set on the window before the navigating action
\* and is gone once the new page has replaced the window, so page_loading is
\* true iff the flag is present (=== true) and page_ready iff it is absent
\* (=== undefined).
C19_LoadingPresentReadyAbsent ==
    /\ WaitedScript(page_loading_expr) => (Satisfied <=> browser.page.flag = "true")
    /\ WaitedScript(page_ready_expr) => (Satisfied <=> browser.page.flag = "undefined")

\* page_ready satisfied after a tick on which the flag was still set
C19_Witness ==
    /\ WaitedScript(page_ready_expr)
    /\ Satisfied
    /\ browser.page.flag = "undefined"
    /\ now >= Period
    /\ wait.timeout > 0

\* the strategy= prefixes of a locator
Strategies == {"css=", "xpath=", "id=", "value=", "label="}

\* the locator of a finder as the normalization is stated: the _locator of
\* an element, a string with a strategy= prefix as it is, css= before any
\* other string
Normalized(finder) ==
    IF finder.type = "element" THEN finder.text
    ELSE IF Len(finder.text) > 1 /\ Head(finder.text) \in Strategies THEN finder.text
    ELSE <<"css=">> \o finder.text

\* C20: the builders compile a bare selector such as '#foo' to 'css=#foo',
\* pass a string that already carries a strategy= prefix through unchanged,
\* and take the _locator of an object that has one verbatim.
C20_LocatorNormalized ==
    \A i \in 1..Len(call_log) : call_log[i].locator = Normalized(call_log[i].finder)

(* ---------------------------------------------------------------------- *)
(* Properties of the builder calls given any finder                       *)
(* ---------------------------------------------------------------------- *)
\* a builder call was given a finder that is neither a string nor an object
\* with a _locator
UnknownFinderGiven ==
    /\ call_log # <<>>
    /\ call_log[Len(call_log)].type = "object"

\* C21: resolving a value that is neither a selector string nor an object
\* with a _locator fails with the 'unknown page element' error that names
\* the value, and the failed builder call leaves the expression as it was.
C21_UnknownPageElementError ==
    UnknownFinderGiven =>
        /\ pc = "done"
        /\ exc = "RuntimeError"
        /\ rv = UnknownPageElement(call_log[Len(call_log)])
        /\ Len(Clauses(expression)) = Len(call_log) - 1

(* ---------------------------------------------------------------------- *)
(* Properties of WebDriver.wait_for on each form of condition             *)
(* ---------------------------------------------------------------------- *)
\* the condition of the wait is an element condition
ElementCondition ==
    /\ wait.kind = "string"
    /\ wait.condition # <<>>
    /\ Head(wait.condition) \in {"element:", "!element:", "visible:", "!visible:"}

\* the locator written in the condition of the wait
WrittenLocator == Tail(wait.condition)

\* the selector a locator names by the css strategy: the locator without its
\* css= prefix, the whole of a locator that has no strategy= prefix
CssValue(locator) ==
    IF Head(locator) = "css=" THEN Tail(locator) ELSE locator

\* C22: a locator with no recognized strategy= prefix defaults to the css
\* strategy wherever it is resolved, the string conditions given to
\* WebDriver.wait_for included: the element lookup is sent with the css
\* strategy and the string as its value.
C22_BareLocatorIsCss ==
    (ElementCondition /\ Head(WrittenLocator) \notin Strategies \ {"css="}) =>
        \A i \in 1..Len(call_log) :
            call_log[i].call = "element" =>
                /\ call_log[i].using = "css selector"
                /\ call_log[i].value = CssValue(WrittenLocator)

\* wait_for was called with the no-op condition and has returned
NoOpWaited == pc = "done" /\ wait.kind = "string" /\ wait.condition = <<>>

\* C23: WebDriver.wait_for called with the no-op condition returns at once
\* with the true result a satisfied wait returns, without a remote call and
\* without a sleep.
C23_NoOpSucceeds ==
    NoOpWaited =>
        /\ exc = "none"
        /\ PyTruthy(rv)
        /\ call_log = <<>>
        /\ now = wait.start_time

\* wait_for was called with 'duration:<ms>' and has returned
DurationWaited ==
    /\ pc = "done"
    /\ wait.kind = "string"
    /\ Len(wait.condition) = 3
    /\ Head(wait.condition) = "duration"

\* C24: WebDriver.wait_for called with 'duration:<ms>' sleeps once for the
\* given milliseconds, sends no request and runs no polling tick, and
\* returns the true result a satisfied wait returns.
C24_DurationSleepsAndSucceeds ==
    DurationWaited =>
        /\ exc = "none"
        /\ PyTruthy(rv)
        /\ tick = NoTick
        /\ call_log = <<Sleep(int(wait.condition[3]))>>
        /\ now = wait.start_time + int(wait.condition[3])

(* ---------------------------------------------------------------------- *)
(* Properties of the visibility checks                                    *)
(* ---------------------------------------------------------------------- *)
\* the latest tick checked the visibility condition `condition` of an
\* element that is on the page, and the server answered GET displayed with
\* the 'element not visible' error (wire status 11)
NotVisibleAnswered(condition) ==
    /\ tick.faulted
    /\ ~tick.interrupted
    /\ tick.status = 11
    /\ Head(condition) \in {"visible:", "!visible:"}
    /\ browser.page.el[condition[3]] # "absent"

\* the latest tick of a string wait got the 'element not visible' error
StringNotVisible == wait.kind = "string" /\ NotVisibleAnswered(wait.condition)

\* the latest tick of the wait on a single-clause expression got the error
ClauseNotVisible ==
    /\ wait.kind = "expression"
    /\ Len(tick.log) = 1
    /\ Len(Clauses(expression)) = 1
    /\ NotVisibleAnswered(tick.log[1].condition)

\* the tick was not satisfied and ended without an error, or with the
\* AssertionError of a timeout after the sleep of the loop
NotYetVisible ==
    /\ ~TickTrue
    /\ tick.exc \in {"none", "AssertionError"}
    /\ exc \in {"none", "AssertionError"}

\* C25: a 'not visible' remote error during a visibility check is treated as
\* 'element not visible' and is not propagated: for that tick the
\* element_visible check is false (the wait goes on or times out) and the
\* element_not_visible check is true (the wait succeeds).
C25_NotVisibleErrorIsInvisible ==
    /\ (StringNotVisible /\ Head(wait.condition) = "visible:") =>
           /\ NotYetVisible
           /\ pc = "done" => (exc = "AssertionError" /\ tick.slept > 0)
    /\ (StringNotVisible /\ Head(wait.condition) = "!visible:") =>
           (TickTrue /\ Succeeded)
    /\ (ClauseNotVisible /\ Head(tick.log[1].condition) = "visible:") =>
           (NotYetVisible /\ ~Succeeded)
    /\ (ClauseNotVisible /\ Head(tick.log[1].condition) = "!visible:") =>
           (TickTrue /\ Succeeded)

\* the wait for a visible element to be visible goes on after the error
C25_Witness ==
    /\ StringNotVisible
    /\ Head(wait.condition) = "visible:"
    /\ browser.page.el[wait.condition[3]] = "visible"
    /\ pc = "exec"
    /\ tick.slept = _default_frequency

(* ---------------------------------------------------------------------- *)
(* Properties of an expression configured at instantiation                *)
(* ---------------------------------------------------------------------- *)
\* the builder call a directive spec names, made on the expression e
Directed(e, spec) ==
    CASE spec[2] = "or_" -> or_expression(e)
      [] spec[2] = "element_present" ->
            _append(e, WebDriverWaitClause(Len(Clauses(e)) + 1,
                <<"element:">> \o WebDriverWaitExpression_to_locator(SubSeq(spec, 3, 3)),
                "None"))
      [] spec[2] = "element_not_present" ->
            _append(e, WebDriverWaitClause(Len(Clauses(e)) + 1,
                <<"!element:">> \o WebDriverWaitExpression_to_locator(SubSeq(spec, 3, 3)),
                "None"))
      [] spec[2] = "page_ready" ->
            _append(e, WebDriverWaitClause(Len(Clauses(e)) + 1,
                <<"js:">> \o page_ready_expr, "None"))

RECURSIVE Chained(_, _, _)
\* the expression that chaining the builder calls of the specs from the i-th
\* on onto e yields
Chained(e, specs, i) ==
    IF i > Len(specs) THEN e ELSE Chained(Directed(e, specs[i]), specs, i + 1)

\* C26: an expression configured at instantiation with directive specs is
\* the expression that chaining the same builder calls in the same order on
\* an empty expression yields.
C26_InitEqualsChaining ==
    chain # <<>> => expression = Chained(AndExpression(<<>>), chain, 1)

(* ---------------------------------------------------------------------- *)
(* Properties of the shape of the built tree                              *)
(* ---------------------------------------------------------------------- *)
RECURSIVE WellGrouped(_, _)
\* in the subtree at node, whose parent has operator `parent` ("none" for
\* the root), every OR node has at most two children and an OR node with
\* two children is the child of an AND node
WellGrouped(node, parent) ==
    IF node.op = "CL" THEN TRUE
    ELSE /\ node.op = "OR" =>
              /\ Len(node.kids) <= 2
              /\ Len(node.kids) = 2 => parent = "AND"
         /\ \A i \in 1..Len(node.kids) : WellGrouped(node.kids[i], node.op)

\* the latest builder call was or_()
AfterOr == chain # <<>> /\ chain[Len(chain)].call = "or_"

\* C27: after any sequence of clause appends and or_() calls every OR node
\* has at most two children, every OR node with two children is a child of
\* an AND node, and the root is an OR node exactly in the state right after
\* or_(): after a clause append, and before any call, it is an AND node.
C27_BuilderTreeInvariant ==
    /\ WellGrouped(expression, "none")
    /\ expression.op \in {"AND", "OR"}
    /\ expression.op = "OR" <=> AfterOr

\* A.or_().B.or_().C : the first OR pair closed inside the second
C27_Witness ==
    /\ Len(chain) = 5
    /\ IsOrCall(2) /\ IsOrCall(4)
    /\ expression.op = "AND"
    /\ Len(expression.kids) = 1
    /\ expression.kids[1].op = "OR"
    /\ Len(expression.kids[1].kids) = 2
    /\ expression.kids[1].kids[1].op = "AND"
    /\ expression.kids[1].kids[1].kids[1].op = "OR"
    /\ Len(expression.kids[1].kids[1].kids[1].kids) = 2

(* ---------------------------------------------------------------------- *)
(* Properties of an OR waited on a WebDriver                              *)
(* ---------------------------------------------------------------------- *)
\* the selector the k-th clause of the expression looks up
SelectorOf(k) == Clauses(expression)[k].condition[3]

\* element_present(A).or_().element_present(B) has been evaluated on a page
\* without A and with B, no remote call answered with an injected fault
OrOfAbsentAndPresent ==
    /\ wait.kind = "expression"
    /\ tick # NoTick
    /\ ~tick.faulted
    /\ Len(chain) = 3
    /\ IsClauseCall(1) /\ IsOrCall(2) /\ IsClauseCall(3)
    /\ browser.page.el[SelectorOf(1)] = "absent"
    /\ browser.page.el[SelectorOf(2)] # "absent"

\* C28: waiting on element_present(A).or_().element_present(B) on a
\* WebDriver with A absent and B present, B is looked up in the same tick,
\* after A was found absent, and the wait succeeds: a false left operand
\* never keeps the right operand from being evaluated.
C28_OrEvaluatesRightOperand ==
    OrOfAbsentAndPresent =>
        /\ Len(tick.log) = 2
        /\ tick.log[2].n = 2
        /\ pc = "done"
        /\ Satisfied

(* ---------------------------------------------------------------------- *)
(* Properties of the states of a wait                                     *)
(* ---------------------------------------------------------------------- *)
\* the states of the polling driver
Idle == pc = "build"

Polling == pc \in {"polling", "exec"}

Terminal == pc = "done"

\* the wait ended satisfied: its last evaluation was true
EndedSatisfied == Terminal /\ TickTrue /\ exc = "none" /\ PyTruthy(rv)

\* the wait ended with its budget used up: False from an expression, the
\* AssertionError of _exec_with_timeout, raised after its sleep, from a
\* string condition
EndedTimedOut ==
    /\ Terminal
    /\ ~TickTrue
    /\ IF wait.kind = "expression"
       THEN /\ tick.exc \in {"none", "AssertionError"}
            /\ exc = "none"
            /\ rv = "False"
            /\ now - wait.start_time >= wait.timeout
       ELSE /\ tick.slept > 0
            /\ exc = "AssertionError"
            /\ now > wait.start_time + wait.timeout

\* the wait ended with the error of a remote call
EndedFailed ==
    /\ Terminal
    /\ ~TickTrue
    /\ exc # "none"
    /\ tick.exc # "none"
    /\ IF wait.kind = "expression" THEN tick.exc # "AssertionError" ELSE tick.slept = 0

\* C29 as stated: a wait that has ended is in exactly one of the states
\* Satisfied and TimedOut.
C29_EndsSatisfiedOrTimedOut ==
    Terminal => (EndedSatisfied # EndedTimedOut)

\* the steps of the state machine
C29_Steps ==
    /\ Idle => (Idle' \/ Polling')
    /\ Polling => (pc' = pc \/ Terminal')
    /\ Terminal => Terminal'

\* C29, amended: a wait started with a finite timeout moves Idle -> Polling
\* -> {Satisfied, TimedOut, Failed}: while time advances it ends, in exactly
\* one of Satisfied, TimedOut and Failed (the error of a remote call reached
\* the caller), and it never polls again once it has ended.
C29_WaitTerminates ==
    /\ [](Polling => <>Terminal)
    /\ [][C29_Steps]_vars
    /\ [](Terminal =>
            /\ EndedSatisfied \/ EndedTimedOut \/ EndedFailed
            /\ ~(EndedSatisfied /\ EndedTimedOut)
            /\ ~(EndedSatisfied /\ EndedFailed)
            /\ ~(EndedTimedOut /\ EndedFailed))

\* a string wait that polled more than once and ran out of its budget
C29_Witness ==
    /\ EndedTimedOut
    /\ wait.kind = "string"
    /\ wait.timeout > 0
    /\ now - wait.start_time > 2 * Period

(* ---------------------------------------------------------------------- *)
(* Properties of the budget of a compound wait                            *)
(* ---------------------------------------------------------------------- *)
\* the expression has been evaluated, no remote call answered with an
\* injected fault
CleanTick == wait.kind = "expression" /\ tick # NoTick /\ ~tick.faulted

\* C30: on every tick each string clause of a WebDriverWaitExpression is
\* dispatched through browser.wait_for with timeout=0 whatever timeout
\* keyword its builder call was given: a clause makes one check, sleeping at
\* most one poll period before it gives up, and the budget is kept by the
\* loop of the expression alone, against the timeout of the wait.
C30_ClausesDispatchedWithZeroTimeout ==
    CleanTick =>
        /\ tick.slept \in {0, Period}
        /\ tick.slept = Period <=> tick.exc = "AssertionError"
        /\ tick.exc \in {"none", "AssertionError"}
        /\ (pc = "done" /\ ~TickTrue) =>
               (rv = "False" /\ exc = "none" /\ now - wait.start_time >= wait.timeout)
        /\ pc = "polling" => now - wait.start_time < wait.timeout

\* a clause built with timeout=500 gave up after one poll period, and the
\* wait, started with timeout=0, ended with it
C30_Witness ==
    /\ CleanTick
    /\ Len(chain) = 1
    /\ chain[1].timeout = 2 * Period
    /\ wait.timeout = 0
    /\ tick.slept = Period
    /\ pc = "done"
    /\ rv = "False"

(* ---------------------------------------------------------------------- *)
(* Properties of the sessions of WebDriverRemote                          *)
(* ---------------------------------------------------------------------- *)
\* the last operation was open(url, timeout) and it returned or failed with
\* an error that is no cancellation
OpenEnded ==
    /\ pc = "session"
    /\ chain # <<>>
    /\ chain[1].call = "open"
    /\ exc # "KeyboardInterrupt"

\* C31: after WebDriverRemote.open(url, timeout=T) returns, or fails with
\* any non-cancellation error, the current timeout of the session equals
\* the value it had before the call, for every prior value including none.
C31_ScopedTimeoutRestored ==
    OpenEnded => browser._current_timeout = chain[1].prior

\* the same, for the calls made while a timeout was set and the server
\* served every request
S31_RestoredFromSetTimeout ==
    (OpenEnded /\ chain[1].prior # NoneArg /\ exc = "none")
        => browser._current_timeout = chain[1].prior

\* C36: whenever a browser session is active, the page-load timeout last
\* sent to that session on the server equals _current_timeout.
C36_ClientServerTimeoutAgree ==
    (pc = "session" /\ browser._session_id # 0 /\ wait.session = browser._session_id)
        => wait.page_load = browser._current_timeout

\* the same, as long as only one session has been started
S36_AgreeInFirstSession ==
    (pc = "session" /\ now <= 1 /\ browser._session_id # 0)
        => wait.page_load = browser._current_timeout

(* ---------------------------------------------------------------------- *)
(* Properties of an action sent to an element                             *)
(* ---------------------------------------------------------------------- *)
\* the requests of a handler called with wait_for='page', the polls of the
\* wait left out
HandlerOrder == <<"flag", "element", "action", "source">>

\* a handler was called with wait_for='page' and has set the flag
PageHandler == chain # <<>> /\ chain[1].call = "click" /\ chain[1].wait_for = "page"

\* the wait of the handler was satisfied, or it timed out
WaitFinished ==
    /\ wait.kind = "expression"
    /\ exc = "none"
    /\ \/ rv = "True"
       \/ rv = "False" /\ now - wait.start_time >= wait.timeout

\* C32: for an element action with wait_for='page' the remote operations
\* occur in the order set flag, locate element, send action, poll page_ready
\* until satisfied or timed out, fetch document source: the flag is set
\* before the action is sent, page_ready is polled only after the action,
\* and the source is fetched only once the wait has finished.
C32_EventOrder ==
    PageHandler =>
        /\ \E n \in 0..4 : call_log = SubSeq(HandlerOrder, 1, n)
        /\ tick # NoTick => Len(call_log) >= 3
        /\ pc = "polling" => call_log = SubSeq(HandlerOrder, 1, 3)
        /\ Len(call_log) = 4 => (pc = "synced" /\ tick # NoTick /\ WaitFinished)

\* a handler has fetched the source after a wait that was satisfied by a
\* page load, not on its first poll
C32_Witness ==
    /\ PageHandler
    /\ pc = "synced"
    /\ call_log = HandlerOrder
    /\ rv = "True"
    /\ now > wait.start_time
    /\ browser.page.flag = "undefined"

\* the flag the handler set is still on the window: no page was loaded
NotReloaded == PageHandler /\ browser.page.flag = "true"

\* the states of a handler whose action loaded no page
C38_Blocked ==
    NotReloaded =>
        /\ (pc \in {"done", "synced"} /\ exc = "none") =>
               (rv = "False" /\ now - wait.start_time >= wait.timeout)
        /\ (pc = "polling" /\ tick # NoTick /\ ~tick.faulted) =>
               tick.exc = "AssertionError"
        /\ (pc = "done" /\ exc # "none") => tick.faulted
        /\ (pc = "done" /\ exc = "none") => SyncReady

\* the flag leaves the window only when a page is loaded
C38_FlagStays ==
    (PageHandler /\ browser.page.flag = "true" /\ browser'.page.flag # "true")
        => (pc \in {"sent", "polling"} /\ pc' = pc /\ call_log' = call_log
            /\ tick' = tick /\ now' = now)

\* C38: when an action with wait_for='page' does not reload the page, the
\* flag stays set, the page_ready wait is never satisfied, the handler blocks
\* for the full timeout and then goes on to document synchronization without
\* raising; the flag stays on the window until a page load clears it.
C38_NoReloadBlocksFullTimeout == []C38_Blocked /\ [][C38_FlagStays]_vars

\* a handler has fetched the source after a wait that timed out, the flag
\* still set
C38_Witness ==
    /\ NotReloaded
    /\ pc = "synced"
    /\ call_log = HandlerOrder
    /\ rv = "False"
    /\ wait.timeout = Period
    /\ now - wait.start_time >= Period

(* ---------------------------------------------------------------------- *)
(* Properties of WebDriver.wait_for called with an expression object      *)
(* ---------------------------------------------------------------------- *)
\* WebDriver.wait_for was called with an expression object
Dispatched == pc \in {"dispatch", "reenter", "polling", "done"} /\ wait.kind = "expression"

\* C37: WebDriver.wait_for called with any WaitExpression instance invokes
\* the expression once and terminates; the call of the expression never
\* re-enters WebDriver.wait_for with the same expression object.
C37_DispatchWithoutReentry ==
    Dispatched => (wait.calls <= 1 /\ wait.entries = 1 /\ pc # "reenter")

\* the same, for a WebDriverWaitExpression
S37_NativeDispatchedOnce ==
    (Dispatched /\ wait.class = "WebDriverWaitExpression")
        => (wait.calls <= 1 /\ wait.entries = 1 /\ pc # "reenter"
            /\ (pc \in {"polling", "done"} => wait.calls = 1))

(* ---------------------------------------------------------------------- *)
(* Properties of a wait with a zero timeout                               *)
(* ---------------------------------------------------------------------- *)
\* the expression was called with timeout 0, or with none on a browser
\* whose current timeout is 0
ZeroTimeout == wait.kind = "expression" /\ wait.timeout = 0

\* no clause occurs twice in the log of the calls
CalledAtMostOnce(log) ==
    \A i, j \in 1..Len(log) : i # j => log[i].n # log[j].n

\* C34: a WebDriverWaitExpression called with timeout 0 (or with a browser
\* whose current timeout is 0) evaluates its expression exactly once, so
\* each clause is called at most once, and returns true iff that one
\* evaluation was true.
C34_ZeroTimeoutSingleCheck ==
    ZeroTimeout =>
        /\ pc = "polling" => (tick = NoTick /\ call_log = <<>>)
        /\ pc = "done" =>
               /\ call_log = tick.log
               /\ CalledAtMostOnce(call_log)
               /\ exc = "none"
               /\ rv \in {"True", "False"}
               /\ rv = "True" <=> PyTruthy(tick.rv)

\* a wait with timeout 0 has returned False after one evaluation that
\* called a clause
C34_Witness ==
    /\ ZeroTimeout
    /\ pc = "done"
    /\ rv = "False"
    /\ Len(call_log) >= 1
    /\ Len(Clauses(expression)) >= 2

\* the same on a WebDriver, where an evaluation takes time: one pass ends
\* the wait
S34_ZeroTimeoutOnWebDriver ==
    ZeroTimeout =>
        /\ pc = "polling" => tick = NoTick
        /\ (pc = "done" /\ exc = "none") =>
               (rv \in {"True", "False"} /\ CalledAtMostOnce(tick.log)
                /\ (rv = "True" <=> TickTrue)
                /\ now - wait.start_time <= Period + MaxLatency * Period)

(* ---------------------------------------------------------------------- *)
(* Properties of the two back ends given the same builder calls           *)
(* ---------------------------------------------------------------------- *)
\* what the i-th builder call of the chain appends to _expressions of a
\* SeleniumWaitExpression: OR for or_(), the fragment of element_present or
\* element_not_present for a clause
SeleniumItem(i) ==
    IF chain[i].call = "or_" THEN OR
    ELSE LET clause == Clauses(expression)[ClauseN(chain[i].n)]
             finder == [type |-> "str", text |-> SelectorAt(chain[i].n)]
         IN  IF Head(clause.condition) = "element:"
             THEN Fragment(_is_element_present("element_present", finder, "true"))
             ELSE Fragment(_is_element_present("element_not_present", finder, "false"))

\* _expressions of the SeleniumWaitExpression given the calls of the chain
SeleniumExpressions == [i \in 1..Len(chain) |-> SeleniumItem(i)]

\* the clause whose fragment is the k-th operand of the script
OperandClause(k) ==
    LET calls == SelectSeq(chain, LAMBDA c : c.call = "clause") IN calls[k].n

JsOperators == {<<"||">>, <<"&&">>}

RECURSIVE JsValue(_, _, _, _, _)
\* the script read as JavaScript from component i on, an operand expected
\* there: && binds tighter than ||, disj is the value of the groups closed
\* so far, conj the value of the open one, k the operands read
JsValue(components, i, k, disj, conj) ==
    IF i > Len(components) \/ components[i] \in JsOperators THEN "SyntaxError"
    ELSE LET value == conj /\ H(OperandClause(k + 1)) IN
         IF i = Len(components) THEN PyBool(disj \/ value)
         ELSE IF components[i + 1] = <<"&&">>
         THEN JsValue(components, i + 2, k + 1, disj, value)
         ELSE IF components[i + 1] = <<"||">>
         THEN JsValue(components, i + 2, k + 1, disj \/ value, TRUE)
         ELSE "SyntaxError"

\* the truth value of the script the text-compiling variant renders
ScriptValue == JsValue(Components(SeleniumExpressions, 1, OR), 1, 0, FALSE, TRUE)

\* C35: for every sequence of builder calls and every assignment of truth
\* values to the clauses, the script rendered by the text-compiling variant,
\* read with JavaScript precedence of && over ||, has the same truth value
\* as the tree the native variant builds from the same sequence.
C35_BackendsEquivalent ==
    (pc = "done" /\ chain # <<>>) => ScriptValue = rv

\* no clause is appended after a clause that follows an or_()
NoAndAfterOr ==
    \A i, j \in 1..Len(chain) :
        (IsOrCall(i) /\ i < j /\ IsClauseCall(j) /\ j < Len(chain)) => IsOrCall(j + 1)

\* every or_() stands between two clauses
OrsBetweenClauses ==
    \A i \in 1..Len(chain) :
        IsOrCall(i) => (IsClauseCall(i - 1) /\ IsClauseCall(i + 1))

\* the two back ends also differ on chains in which every or_() stands
\* between two clauses
S35_EquivalentOnWellFormedChains ==
    (pc = "done" /\ chain # <<>> /\ OrsBetweenClauses) => ScriptValue = rv

\* the two back ends agree on the chains in which every or_() stands
\* between two clauses and no AND follows an OR
S35_EquivalentWithoutAndAfterOr ==
    (pc = "done" /\ chain # <<>> /\ OrsBetweenClauses /\ NoAndAfterOr)
        => ScriptValue = rv

(* ---------------------------------------------------------------------- *)
(* Properties of the form-fill retry loop                                 *)
(* ---------------------------------------------------------------------- *)
\* _fill_form_async has returned or raised
FillEnded == pc \in {"done", "raised"}

\* the names of a sequence of pairs
NamesOf(values) == {values[i] : i \in 1..Len(values)}

\* the states of the loop: the unset fields are those given less those set,
\* a ValueError names them, a normal return leaves none, and every pass that
\* went on waited on wait_for (when given) and re-synchronized the document
C33_FillStates ==
    wait.kind = "fill" =>
        /\ NamesOf(chain) = NamesOf(wait.given) \ browser.set
        /\ now <= Len(wait.given) + 1
        /\ pc = "done" => (chain = <<>> /\ exc = "none")
        /\ (pc = "raised" /\ exc = "ValueError") => (rv = chain /\ chain # <<>>)
        /\ pc = "fill" =>
              \E n \in 0..MaxFields :
                  /\ n = now
                  /\ call_log = [i \in 1..(n * Len(AfterFill(wait.wait_for))) |->
                        AfterFill(wait.wait_for)[((i - 1) % Len(AfterFill(wait.wait_for))) + 1]]

\* a pass strictly shrinks the list of unset fields or raises ValueError
\* (or the error of wait_for), and nothing happens after the end
C33_FillSteps ==
    /\ now' # now =>
          \/ pc' = "fill" /\ Len(chain') < Len(chain)
          \/ pc' = "raised" /\ exc' = "ValueError" /\ chain' = chain
          \/ /\ pc' = "raised" /\ exc' = "AssertionError" /\ wait.wait_for # "None"
             /\ Len(chain') < Len(chain)
    /\ FillEnded => UNCHANGED vars

\* C33: _fill_form_async terminates for every input; each pass either sets
\* at least one remaining field, strictly shrinking the list of unset
\* fields, or raises ValueError naming the unset fields; it returns normally
\* only when no field remains unset, and between passes it waits on wait_for
\* (when given) and re-synchronizes the document.
C33_FillTerminates ==
    /\ []C33_FillStates
    /\ [][C33_FillSteps]_vars
    /\ <>FillEnded

\* the form given three fields has been filled in two passes, with a wait
\* and a re-synchronization after each
C33_Witness ==
    /\ wait.kind = "fill"
    /\ pc = "done"
    /\ Len(wait.given) = 3
    /\ now = 2
    /\ wait.wait_for = "page"
    /\ call_log = AfterFill("page") \o AfterFill("page")

====
